---- MODULE Spec2Model ----
(***************************************************************************)
(* Model of the bingo generator / live play engine of                      *)
(* diogomix8/bingo-generator.                                              *)
(*                                                                         *)
(*   - Live play: services/bingo_live_service.py (Carton, EstadoJugada).   *)
(*   - Generation: services/generador_service.py (validar_configuracion,   *)
(*     generar_combinaciones).                                             *)
(*                                                                         *)
(*   - Export and audit: services/generador_service.py                     *)
(*     (crear_dataframe_simple, crear_dataframe_corel, ejecutar_auditoria).*)
(*   - Batch simulation: services/simulador_service.py                     *)
(*     (cargar_cartones_corel, simular_jugada, calcular_estadisticas).     *)
(*                                                                         *)
(* Spec       : the live play state machine (cantar / deshacer /           *)
(*              reiniciar / ranking).                                      *)
(* SpecGen    : validation followed by the rejection-sampling loop.        *)
(* SpecExport : the rest of generar_bingos on a generated pool, and the    *)
(*              loaders reading the saved paired file back.                *)
(* SpecAud    : ejecutar_auditoria on sound and on damaged frames.         *)
(* SpecSim    : ejecutar_simulacion, trial by trial, then the statistics.  *)
(* SpecGenJusta : SpecGen on small configurations, with the fairness of    *)
(*              the sampling loop.                                         *)
(* SpecProgreso : the sampling loop with its progress callback, on         *)
(*              configurations of 500 combinations and more.               *)
(* SpecConc   : cantar_bolilla called by two callers on one game, statement*)
(*              by statement.                                              *)
(***************************************************************************)
EXTENDS Integers, Sequences, FiniteSets, TLC

VARIABLES
    cartones,              \* EstadoJugada.cartones: list of Carton
    bolillas_cantadas,     \* EstadoJugada.bolillas_cantadas: list of int
    bolillas_disponibles,  \* EstadoJugada.bolillas_disponibles: set of int
    ganadores,             \* EstadoJugada.ganadores: list of Carton (as indices into cartones)
    jugada_terminada,      \* EstadoJugada.jugada_terminada
    resultado,             \* what the last operation returned
    config,                \* ConfiguracionBingo handed to the generator
    cartones_unicos,       \* generar_combinaciones: the set of accepted tuples
    tabla,                 \* the table of slots CPython keeps cartones_unicos in
    pc,                    \* position of the generation run
    validacion,            \* what validar_configuracion returned
    retorno,               \* what generar_combinaciones returned (a list)
    df_simple,             \* generar_bingos: what crear_dataframe_simple returned
    df_corel,              \* generar_bingos: what crear_dataframe_corel returned
    archivo_corel,         \* the rows pd.read_csv gives for the saved paired file
    auditoria,             \* what ejecutar_auditoria returned
    cargados,              \* the cards a loader made of a paired file
    resultados,            \* ejecutar_simulacion: the list of ResultadoJugada
    estadisticas,          \* what calcular_estadisticas returned
    progreso,              \* the calls of the progress callback: (accepted, needed)
    hilos                  \* the callers inside cantar_bolilla on one game

varsJugada == <<cartones, bolillas_cantadas, bolillas_disponibles, ganadores,
                jugada_terminada, resultado>>
varsGen == <<config, cartones_unicos, tabla, pc, validacion, retorno, progreso>>
varsExport == <<df_simple, df_corel, archivo_corel, auditoria>>
varsSim == <<cargados, resultados, estadisticas>>
varsHilos == <<hilos>>
vars == <<cartones, bolillas_cantadas, bolillas_disponibles, ganadores,
          jugada_terminada, resultado, config, cartones_unicos, tabla, pc,
          validacion, retorno, df_simple, df_corel, archivo_corel,
          auditoria, cargados, resultados, estadisticas, progreso, hilos>>

-----------------------------------------------------------------------------
(* Bounds of the model.                                                     *)

\* Balls the caller draws from are 1..NumBolillas (plus two out-of-range inputs).
NumBolillas == 12
\* The balls are called in an order n, n+p, n+2p, ... (cyclic in 1..NumBolillas)
\* from any first ball n, with any step p in 1..MaxPaso.
MaxPaso == 5
\* obtener_ranking is asked for -1..MaxTop cards, and for the default 20.
MaxTop == 1
\* Configurations handed to the generator: each field ranges from -1 to its bound.
MaxBingos == 4
MaxPorCarton == 2
MaxNumero == 3
\* The runs checked for termination draw from at most MaxNumeroJusto numbers.
MaxNumeroJusto == 3
\* The runs watched for their progress calls need up to MaxBingosProgreso
\* combinations, and draw a repeated combination while fewer than MaxAvisos
\* progress calls have been made.
MaxBingosProgreso == 1001
MaxAvisos == 4
\* Two callers share a game; each makes up to MaxLlamadasHilo calls, of one of
\* MaxBolillasConc numbers.
MaxLlamadasHilo == 1
MaxBolillasConc == 2
MaxCartonesPorBingo == 3
MaxPorFila == 2
\* Pools handed to the export: 1..MaxBingosExport sheets of cards of 2, 10 or
\* MaxPorCartonExport numbers out of 1..NumeroMaximoExport, drawn in the window
\* order rotated by 0..MaxGiro.
MaxBingosExport == 6
MaxPorCartonExport == 11
NumeroMaximoExport == 20
MaxGiro == 2
\* Audited exports have at most MaxBingosAud sheets.
MaxBingosAud == 4
\* A simulation runs 0..MaxJugadas trials.
MaxJugadas == 2

-----------------------------------------------------------------------------
(* Program constants.                                                       *)

\* Carton.es_ganador: "cantidad_aciertos >= 10"
UmbralGanador == 10
\* EstadoJugada.__init__ / reiniciar: set(range(1, 61))
MaxBolilla == 60
\* _cargar_cartones: numbers read per card (the column ranges are 10 wide)
AnchoCarton == 10
\* _cargar_cartones: str(...).zfill(4)
AnchoId == 4
\* obtener_ranking(self, top_n: int = 20)
TopPorDefecto == 20
\* crear_dataframe_corel: f"{idx_carton1:04d}"
AnchoFormato == 4
\* _cargar_cartones / cargar_cartones_corel: fila.iloc[31]
ColumnaId2 == 31
\* simular_jugada(cartones, bolillas_totales=60, numeros_por_carton=10)
BolillasTotales == 60
NumerosPorCartonSim == 10
\* generar_combinaciones: "len(cartones_unicos) % 500 == 0"
PeriodoProgreso == 500

Universo == 1..MaxBolilla
\* the integers a saved id column can hold
EnterosLeidos == 0..(2 * MaxBingosExport)

-----------------------------------------------------------------------------
(* Small helpers standing for Python built-ins.                             *)

Digito(d) ==
    CASE d = 0 -> "0" [] d = 1 -> "1" [] d = 2 -> "2" [] d = 3 -> "3"
      [] d = 4 -> "4" [] d = 5 -> "5" [] d = 6 -> "6" [] d = 7 -> "7"
      [] d = 8 -> "8" [] d = 9 -> "9"

\* str(n) for a non-negative integer cell
RECURSIVE str(_)
str(n) == IF n < 10 THEN Digito(n) ELSE str(n \div 10) \o Digito(n % 10)

\* s.zfill(w)
RECURSIVE zfill(_, _)
zfill(s, w) == IF Len(s) >= w THEN s ELSE zfill("0" \o s, w)

\* set(int(x) for x in fila.iloc[inicio:fin]); iloc is 0-based, fila is 1-based
\* (a slice stops at the end of the row)
Rebanada(fila, inicio, fin) ==
    { fila[j + 1] : j \in inicio..((IF fin < Len(fila) THEN fin ELSE Len(fila)) - 1) }

Ultimo(s) == s[Len(s)]
SinUltimo(s) == SubSeq(s, 1, Len(s) - 1)
Rango(s) == { s[i] : i \in 1..Len(s) }

-----------------------------------------------------------------------------
(* Carton                                                                   *)

Carton(bingo_id, carton_tipo, numeros) ==
    [bingo_id |-> bingo_id, carton_tipo |-> carton_tipo,
     numeros |-> numeros, aciertos |-> {}]

cantidad_aciertos(c) == Cardinality(c.aciertos)

es_ganador(c) == cantidad_aciertos(c) >= UmbralGanador

id_completo(c) == c.bingo_id \o "-" \o c.carton_tipo

\* marcar_numero: the card after the call (the returned flag is numero \in c.numeros)
marcar_numero_siempre(c, numero) == [c EXCEPT !.aciertos = @ \cup {numero}]

marcar_numero(c, numero) ==
    IF numero \in c.numeros
        THEN [c EXCEPT !.aciertos = @ \cup {numero}]
        ELSE c

\* desmarcar_numero: the card after the call
desmarcar_numero_sin_efecto(c, numero) == c

desmarcar_numero(c, numero) ==
    IF numero \in c.aciertos
        THEN [c EXCEPT !.aciertos = @ \ {numero}]
        ELSE c

-----------------------------------------------------------------------------
(* EstadoJugada._cargar_cartones: a file is a list of rows of 62 cells.     *)

tipos_carton(tipo) ==
    CASE tipo = "A" -> <<1, 11>>  [] tipo = "B" -> <<11, 21>>
      [] tipo = "C" -> <<21, 31>> [] tipo = "D" -> <<32, 42>>
      [] tipo = "E" -> <<42, 52>> [] tipo = "F" -> <<52, 62>>

CartonesDeFila(fila) ==
    LET bingo_id_1 == zfill(str(fila[0 + 1]), AnchoId)
        bingo_id_2 == zfill(str(fila[ColumnaId2 + 1]), AnchoId)
        De(id, tipo) == Carton(id, tipo,
                               Rebanada(fila, tipos_carton(tipo)[1], tipos_carton(tipo)[2]))
    IN  << De(bingo_id_1, "A"), De(bingo_id_1, "B"), De(bingo_id_1, "C"),
           De(bingo_id_2, "D"), De(bingo_id_2, "E"), De(bingo_id_2, "F") >>

RECURSIVE _cargar_cartones(_)
_cargar_cartones(filas) ==
    IF filas = <<>> THEN <<>>
    ELSE CartonesDeFila(Head(filas)) \o _cargar_cartones(Tail(filas))

-----------------------------------------------------------------------------
(* The layouts the games are loaded from.                                   *)

\* the 10 cells of a card holding the numbers a..b
Celdas(a, b) == [j \in 1..AnchoCarton |-> a + ((j - 1) % (b - a + 1))]

FilaCorel(id1, ca, cb, cc, id2, cd, ce, cf) ==
    <<id1>> \o ca \o cb \o cc \o <<id2>> \o cd \o ce \o cf

\* one row of 10-number cards that overlap: several of them can be completed by
\* the same ball
ArchivoDiez ==
    << FilaCorel(1, Celdas(1, 10), Celdas(2, 11), Celdas(3, 12),
                 2, <<1, 2, 3, 4, 5, 6, 7, 8, 9, 11>>,
                    <<1, 2, 3, 4, 5, 6, 7, 8, 9, 12>>,
                    <<1, 2, 3, 4, 5, 6, 7, 8, 11, 12>>) >>

\* one row whose cells repeat: the loaded cards have fewer than 10 numbers
ArchivoCortos ==
    << FilaCorel(1, Celdas(1, 3), Celdas(2, 4), Celdas(1, 10),
                 2, Celdas(1, 5), Celdas(3, 12), Celdas(12, 12)) >>

\* two rows, winners on different sheets
ArchivoDosFilas ==
    << FilaCorel(1, Celdas(1, 10), Celdas(13, 22), Celdas(23, 32),
                 3, Celdas(33, 42), Celdas(43, 52), Celdas(3, 12)),
       FilaCorel(2, Celdas(2, 11), Celdas(14, 23), Celdas(24, 33),
                 4, Celdas(34, 43), Celdas(44, 53), Celdas(1, 2)) >>

Archivos == {ArchivoDiez, ArchivoCortos, ArchivoDosFilas}

\* one row none of whose cards has 10 numbers
ArchivoSoloCortos ==
    << FilaCorel(1, Celdas(1, 3), Celdas(2, 4), Celdas(1, 9),
                 2, Celdas(1, 5), Celdas(3, 11), Celdas(12, 12)) >>

\* the files the simulator is run on
ArchivosSim == Archivos \cup {ArchivoSoloCortos}

-----------------------------------------------------------------------------
(* EstadoJugada as a value, and its operations as functions on it.          *)

Estado ==
    [cartones |-> cartones, bolillas_cantadas |-> bolillas_cantadas,
     bolillas_disponibles |-> bolillas_disponibles, ganadores |-> ganadores,
     jugada_terminada |-> jugada_terminada]

\* EstadoJugada.__init__
EstadoInicial(archivo) ==
    [cartones |-> _cargar_cartones(archivo), bolillas_cantadas |-> <<>>,
     bolillas_disponibles |-> Universo, ganadores |-> <<>>,
     jugada_terminada |-> FALSE]

\* the returned dict, reduced to the operation, 'exito', the kind of 'mensaje' and
\* the number it names ('bolilla', 'bolilla_deshecha', or the one in the message)
Res(op, exito, mensaje, numero) ==
    [op |-> op, exito |-> exito, mensaje |-> mensaje, numero |-> numero]

YaTermino == Res("cantar", FALSE, "La jugada ya termino", 0)
YaCantada(numero) == Res("cantar", FALSE, "ya fue cantada", numero)
NadaQueDeshacer == Res("deshacer", FALSE, "No hay bolillas para deshacer", 0)

\* "carton not in self.ganadores": list membership compares the dataclass fields
EnGanadores(cs, gs, c) == \E j \in 1..Len(gs) : cs[gs[j]] = c

\* the loop of cantar_bolilla over self.cartones, from card i on
RECURSIVE MarcarCartones(_, _, _, _)
MarcarCartones(cs, gs, numero, i) ==
    IF i > Len(cs) THEN [cartones |-> cs, ganadores |-> gs]
    ELSE LET c  == marcar_numero(cs[i], numero)
             acierto == numero \in cs[i].numeros
             cs2 == [cs EXCEPT ![i] = c]
             gs2 == IF acierto /\ es_ganador(c) /\ ~EnGanadores(cs2, gs, c)
                        THEN Append(gs, i) ELSE gs
         IN  MarcarCartones(cs2, gs2, numero, i + 1)

\* the accepted call that leaves the ball in bolillas_disponibles
CantarAceptada_sin_descartar(e, numero) ==
    LET m == MarcarCartones(e.cartones, e.ganadores, numero, 1)
    IN  [estado |->
            [cartones |-> m.cartones,
             bolillas_cantadas |-> Append(e.bolillas_cantadas, numero),
             bolillas_disponibles |-> e.bolillas_disponibles,
             ganadores |-> m.ganadores,
             jugada_terminada |-> (m.ganadores # <<>>)],
         res |-> Res("cantar", TRUE, "", numero)]

\* cantar_bolilla past its two guards: lines 128-157
CantarAceptada(e, numero) ==
    LET m == MarcarCartones(e.cartones, e.ganadores, numero, 1)
    IN  [estado |->
            [cartones |-> m.cartones,
             bolillas_cantadas |-> Append(e.bolillas_cantadas, numero),
             bolillas_disponibles |-> e.bolillas_disponibles \ {numero},
             ganadores |-> m.ganadores,
             jugada_terminada |-> (m.ganadores # <<>>)],
         res |-> Res("cantar", TRUE, "", numero)]

cantar_bolilla_sin_terminada(e, numero) ==
    IF numero \notin e.bolillas_disponibles
        THEN [estado |-> e, res |-> YaCantada(numero)]
    ELSE CantarAceptada(e, numero)

cantar_bolilla_sin_disponibles(e, numero) ==
    IF e.jugada_terminada
        THEN [estado |-> e, res |-> YaTermino]
    ELSE CantarAceptada(e, numero)

\* cantar_bolilla: the state after the call and what it returns
cantar_bolilla(e, numero) ==
    IF e.jugada_terminada
        THEN [estado |-> e, res |-> YaTermino]
    ELSE IF numero \notin e.bolillas_disponibles
        THEN [estado |-> e, res |-> YaCantada(numero)]
    ELSE CantarAceptada(e, numero)

\* [c for c in self.cartones if c.es_ganador], as indices
RECURSIVE GanadoresDe(_, _)
GanadoresDe(cs, i) ==
    IF i > Len(cs) THEN <<>>
    ELSE (IF es_ganador(cs[i]) THEN <<i>> ELSE <<>>) \o GanadoresDe(cs, i + 1)

\* the undo that keeps the winners it found and never recomputes them
DeshacerEn_sin_recalcular(e, pos) ==
    LET bolilla == e.bolillas_cantadas[pos]
    IN  [estado |->
            [cartones |-> [i \in 1..Len(e.cartones) |->
                              desmarcar_numero(e.cartones[i], bolilla)],
             bolillas_cantadas |-> SubSeq(e.bolillas_cantadas, 1, pos - 1)
                                   \o SubSeq(e.bolillas_cantadas, pos + 1,
                                             Len(e.bolillas_cantadas)),
             bolillas_disponibles |-> e.bolillas_disponibles \cup {bolilla},
             ganadores |-> e.ganadores,
             jugada_terminada |-> e.jugada_terminada],
         res |-> Res("deshacer", TRUE, "", bolilla)]

\* deshacer_bolilla past its guard, removing the ball at position pos: lines 167-186
DeshacerEn(e, pos) ==
    LET bolilla == e.bolillas_cantadas[pos]
        cs == [i \in 1..Len(e.cartones) |-> desmarcar_numero(e.cartones[i], bolilla)]
        gs == GanadoresDe(cs, 1)
    IN  [estado |->
            [cartones |-> cs,
             bolillas_cantadas |-> SubSeq(e.bolillas_cantadas, 1, pos - 1)
                                   \o SubSeq(e.bolillas_cantadas, pos + 1,
                                             Len(e.bolillas_cantadas)),
             bolillas_disponibles |-> e.bolillas_disponibles \cup {bolilla},
             ganadores |-> gs,
             jugada_terminada |-> (Len(gs) > 0)],
         res |-> Res("deshacer", TRUE, "", bolilla)]

deshacer_bolilla_exito_vacio(e) ==
    IF e.bolillas_cantadas = <<>>
        THEN [estado |-> e, res |-> Res("deshacer", TRUE, "", 0)]
    ELSE DeshacerEn(e, Len(e.bolillas_cantadas))

deshacer_bolilla_primera(e) ==
    IF e.bolillas_cantadas = <<>>
        THEN [estado |-> e, res |-> NadaQueDeshacer]
    ELSE DeshacerEn(e, 1)

\* deshacer_bolilla: the state after the call and what it returns;
\* self.bolillas_cantadas.pop() removes the last position
deshacer_bolilla(e) ==
    IF e.bolillas_cantadas = <<>>
        THEN [estado |-> e, res |-> NadaQueDeshacer]
    ELSE DeshacerEn(e, Len(e.bolillas_cantadas))

\* reiniciar
reiniciar_sin_limpiar(e) ==
    [cartones |-> e.cartones,
     bolillas_cantadas |-> <<>>, bolillas_disponibles |-> Universo,
     ganadores |-> <<>>, jugada_terminada |-> FALSE]

reiniciar(e) ==
    [cartones |-> [i \in 1..Len(e.cartones) |-> [e.cartones[i] EXCEPT !.aciertos = {}]],
     bolillas_cantadas |-> <<>>, bolillas_disponibles |-> Universo,
     ganadores |-> <<>>, jugada_terminada |-> FALSE]

\* the slice s[:n] of Python: the first n elements, or all but the last -n
Hasta(s, n) ==
    IF n >= 0 THEN SubSeq(s, 1, IF n < Len(s) THEN n ELSE Len(s))
    ELSE SubSeq(s, 1, IF Len(s) + n > 0 THEN Len(s) + n ELSE 0)

\* sorted(..., key=cantidad_aciertos, reverse=True) is stable: position i goes
\* behind every position already placed whose card has at least as many hits
RECURSIVE InsertarPorAciertos_sin_estabilidad(_, _, _)
InsertarPorAciertos_sin_estabilidad(cs, i, orden) ==
    IF orden = <<>> THEN <<i>>
    ELSE IF cantidad_aciertos(cs[Head(orden)]) > cantidad_aciertos(cs[i])
        THEN <<Head(orden)>> \o InsertarPorAciertos_sin_estabilidad(cs, i, Tail(orden))
    ELSE <<i>> \o orden

RECURSIVE InsertarPorAciertos(_, _, _)
InsertarPorAciertos(cs, i, orden) ==
    IF orden = <<>> THEN <<i>>
    ELSE IF cantidad_aciertos(cs[Head(orden)]) >= cantidad_aciertos(cs[i])
        THEN <<Head(orden)>> \o InsertarPorAciertos(cs, i, Tail(orden))
    ELSE <<i>> \o orden

\* the positions of the first n cards of cs, sorted by descending hits
RECURSIVE ordenados(_, _)
ordenados(cs, n) ==
    IF n = 0 THEN <<>> ELSE InsertarPorAciertos(cs, n, ordenados(cs, n - 1))

\* one entry of the ranking
EntradaRanking(c) ==
    [carton |-> id_completo(c), bingo_id |-> c.bingo_id,
     carton_tipo |-> c.carton_tipo, aciertos |-> cantidad_aciertos(c),
     es_ganador |-> es_ganador(c)]

\* obtener_ranking: the positions it lists, and the list it returns
PosicionesRanking(e, top_n) == Hasta(ordenados(e.cartones, Len(e.cartones)), top_n)

obtener_ranking(e, top_n) ==
    LET o == PosicionesRanking(e, top_n)
    IN  [i \in 1..Len(o) |-> EntradaRanking(e.cartones[o[i]])]

\* the returned list, with the top_n it was asked for
ResRanking(top_n, lista) ==
    [op |-> "ranking", exito |-> TRUE, mensaje |-> "", numero |-> top_n,
     ranking |-> lista]

-----------------------------------------------------------------------------
(* The calls the model makes.                                               *)

\* b follows a with step paso (cyclic in 1..NumBolillas)
Sigue(a, b, paso) == b = ((a - 1 + paso) % NumBolillas) + 1
OrdenPermitido(s) ==
    \E paso \in 1..MaxPaso : \A i \in 1..(Len(s) - 1) : Sigue(s[i], s[i + 1], paso)

\* numbers handed to cantar_bolilla: the balls, and one number on each side of 1..60
Entradas == (1..NumBolillas) \cup {0, MaxBolilla + 1}

\* top_n handed to obtener_ranking: small ones, a negative one, and the default
TopNs == (-1..MaxTop) \cup {TopPorDefecto}

Asignar(e, r) ==
    /\ cartones' = e.cartones
    /\ bolillas_cantadas' = e.bolillas_cantadas
    /\ bolillas_disponibles' = e.bolillas_disponibles
    /\ ganadores' = e.ganadores
    /\ jugada_terminada' = e.jugada_terminada
    /\ resultado' = r

-----------------------------------------------------------------------------
(* Live play state machine.                                                 *)

InitJugada ==
    /\ \E archivo \in Archivos :
          LET e == EstadoInicial(archivo) IN
          /\ cartones = e.cartones
          /\ bolillas_cantadas = e.bolillas_cantadas
          /\ bolillas_disponibles = e.bolillas_disponibles
          /\ ganadores = e.ganadores
          /\ jugada_terminada = e.jugada_terminada
    /\ resultado = Res("init", TRUE, "", 0)

GenInactivo ==
    /\ config = [seed |-> 0]
    /\ cartones_unicos = {}
    /\ tabla = <<>>
    /\ pc = "inactivo"
    /\ validacion = <<>>
    /\ retorno = <<>>
    /\ progreso = <<>>

\* no export has been made
ExportInactivo ==
    /\ df_simple = <<>>
    /\ df_corel = <<>>
    /\ archivo_corel = <<>>
    /\ auditoria = <<>>

\* no simulation has been run
SimInactivo ==
    /\ cargados = <<>>
    /\ resultados = <<>>
    /\ estadisticas = <<>>

\* nobody is inside a call
HilosInactivos == hilos = <<>>

Init == InitJugada /\ GenInactivo /\ ExportInactivo /\ SimInactivo /\ HilosInactivos

CantarBolilla(numero) ==
    /\ LET r == cantar_bolilla(Estado, numero) IN
          /\ r.res.exito => OrdenPermitido(r.estado.bolillas_cantadas)
          /\ Asignar(r.estado, r.res)
    /\ UNCHANGED <<varsGen, varsExport, varsSim, varsHilos>>

DeshacerBolilla ==
    /\ LET r == deshacer_bolilla(Estado) IN Asignar(r.estado, r.res)
    /\ UNCHANGED <<varsGen, varsExport, varsSim, varsHilos>>

Reiniciar ==
    /\ Asignar(reiniciar(Estado), Res("reiniciar", TRUE, "", 0))
    /\ UNCHANGED <<varsGen, varsExport, varsSim, varsHilos>>


\* obtener_ranking with self.cartones.sort(...) in place of sorted(...)
ObtenerRanking_en_sitio(top_n) ==
    /\ LET o == ordenados(cartones, Len(cartones))
       IN  Asignar([Estado EXCEPT !.cartones = [i \in 1..Len(o) |-> cartones[o[i]]]],
                   ResRanking(top_n, obtener_ranking(Estado, top_n)))
    /\ UNCHANGED <<varsGen, varsExport, varsSim, varsHilos>>

ObtenerRanking(top_n) ==
    /\ Asignar(Estado, ResRanking(top_n, obtener_ranking(Estado, top_n)))
    /\ UNCHANGED <<varsGen, varsExport, varsSim, varsHilos>>

Next ==
    \/ \E numero \in Entradas : CantarBolilla(numero)
    \/ DeshacerBolilla
    \/ Reiniciar
    \/ \E top_n \in TopNs : ObtenerRanking(top_n)

Spec == Init /\ [][Next]_vars

-----------------------------------------------------------------------------
(* cantar_bolilla called by two callers on the game _jugadas_activas holds  *)
(* under one jugada_id.  EstadoJugada has no lock: a call is the sequence   *)
(* of its statements, and the statements of two calls can alternate.  The   *)
(* hosting layer either takes one call at a time (en_serie) or does not.    *)
(* The cards of the game differ in their type, so that the comparison of    *)
(* line 142 (carton not in self.ganadores) finds a card only by itself.     *)

Hilos == {"h1", "h2"}

\* the game after cantar_bolilla(1), ..., cantar_bolilla(j), one at a time
RECURSIVE EstadoTras(_, _)
EstadoTras(archivo, j) ==
    IF j = 0 THEN EstadoInicial(archivo)
    ELSE cantar_bolilla(EstadoTras(archivo, j - 1), j).estado

\* the numbers the two callers call: the next ones after the first nine
BolillasConc == UmbralGanador..(UmbralGanador + MaxBolillasConc - 1)

\* a caller: where it is in cantar_bolilla, the number it was called with, the
\* card its loop is at, what its last call returned, the calls it has made
Hilo(pos, numero, i, res, hechas) ==
    [pc |-> pos, numero |-> numero, i |-> i, res |-> res, hechas |-> hechas]

InitConc ==
    /\ \E previas \in {0, UmbralGanador - 1} :
          LET e == EstadoTras(ArchivoDiez, previas) IN
          /\ cartones = e.cartones
          /\ bolillas_cantadas = e.bolillas_cantadas
          /\ bolillas_disponibles = e.bolillas_disponibles
          /\ ganadores = e.ganadores
          /\ jugada_terminada = e.jugada_terminada
    /\ resultado = Res("init", TRUE, "", 0)
    /\ \E en_serie \in BOOLEAN :
          hilos = [en_serie |-> en_serie,
                   de |-> [h \in Hilos |->
                             Hilo("fuera", 0, 0, Res("init", TRUE, "", 0), 0)]]
    /\ GenInactivo /\ ExportInactivo /\ SimInactivo

Pasar(h, pos) == hilos' = [hilos EXCEPT !.de[h].pc = pos]

\* the call returns r to its caller
Volver(h, r) ==
    /\ hilos' = [hilos EXCEPT !.de[h].pc = "fuera", !.de[h].res = r]
    /\ resultado' = r

\* a caller enters cantar_bolilla(numero); a serializing host lets it in only
\* when nobody else is inside
Entrar(h, numero) ==
    /\ hilos.de[h].pc = "fuera"
    /\ hilos.de[h].hechas < MaxLlamadasHilo
    /\ hilos.en_serie => \A g \in Hilos : hilos.de[g].pc = "fuera"
    /\ hilos' = [hilos EXCEPT !.de[h] =
                    Hilo("guarda terminada", numero, 0, @.res, @.hechas + 1)]
    /\ UNCHANGED <<varsJugada, varsGen, varsExport, varsSim>>

\* lines 114-119: if self.jugada_terminada: return ...
GuardaTerminada(h) ==
    /\ hilos.de[h].pc = "guarda terminada"
    /\ IF jugada_terminada THEN Volver(h, YaTermino)
       ELSE Pasar(h, "guarda disponible") /\ UNCHANGED resultado
    /\ UNCHANGED <<cartones, bolillas_cantadas, bolillas_disponibles, ganadores,
                   jugada_terminada>>
    /\ UNCHANGED <<varsGen, varsExport, varsSim>>

\* the second guard, never looking at bolillas_disponibles
GuardaDisponible_sin_mirar(h) ==
    /\ hilos.de[h].pc = "guarda disponible"
    /\ Pasar(h, "anotar") /\ UNCHANGED resultado
    /\ UNCHANGED <<cartones, bolillas_cantadas, bolillas_disponibles, ganadores,
                   jugada_terminada>>
    /\ UNCHANGED <<varsGen, varsExport, varsSim>>

\* lines 121-126: if numero not in self.bolillas_disponibles: return ...
GuardaDisponible(h) ==
    /\ hilos.de[h].pc = "guarda disponible"
    /\ IF hilos.de[h].numero \notin bolillas_disponibles
           THEN Volver(h, YaCantada(hilos.de[h].numero))
       ELSE Pasar(h, "anotar") /\ UNCHANGED resultado
    /\ UNCHANGED <<cartones, bolillas_cantadas, bolillas_disponibles, ganadores,
                   jugada_terminada>>
    /\ UNCHANGED <<varsGen, varsExport, varsSim>>

\* line 129: self.bolillas_cantadas.append(numero)
Anotar(h) ==
    /\ hilos.de[h].pc = "anotar"
    /\ bolillas_cantadas' = Append(bolillas_cantadas, hilos.de[h].numero)
    /\ Pasar(h, "descartar")
    /\ UNCHANGED <<cartones, bolillas_disponibles, ganadores, jugada_terminada,
                   resultado>>
    /\ UNCHANGED <<varsGen, varsExport, varsSim>>

\* line 130: self.bolillas_disponibles.discard(numero); the loop of line 134
\* starts at the first card
Descartar(h) ==
    /\ hilos.de[h].pc = "descartar"
    /\ bolillas_disponibles' = bolillas_disponibles \ {hilos.de[h].numero}
    /\ hilos' = [hilos EXCEPT !.de[h].pc = "marcar", !.de[h].i = 1]
    /\ UNCHANGED <<cartones, bolillas_cantadas, ganadores, jugada_terminada,
                   resultado>>
    /\ UNCHANGED <<varsGen, varsExport, varsSim>>

\* lines 134-139: the loop takes its next card and marks it; a hit goes on to
\* the winner test, a miss to the next card, the end of the list out of the loop
Marcar(h) ==
    /\ hilos.de[h].pc = "marcar"
    /\ LET i == hilos.de[h].i
           numero == hilos.de[h].numero
       IN  IF i > Len(cartones)
               THEN /\ Pasar(h, "mirar ganadores")
                    /\ UNCHANGED cartones
           ELSE /\ cartones' = [cartones EXCEPT ![i] = marcar_numero(@, numero)]
                /\ IF numero \in cartones[i].numeros
                       THEN Pasar(h, "probar ganador")
                   ELSE hilos' = [hilos EXCEPT !.de[h].i = i + 1]
    /\ UNCHANGED <<bolillas_cantadas, bolillas_disponibles, ganadores,
                   jugada_terminada, resultado>>
    /\ UNCHANGED <<varsGen, varsExport, varsSim>>

\* line 142: if carton.es_ganador and carton not in self.ganadores
ProbarGanador(h) ==
    /\ hilos.de[h].pc = "probar ganador"
    /\ LET i == hilos.de[h].i
       IN  IF es_ganador(cartones[i]) /\ ~EnGanadores(cartones, ganadores, cartones[i])
               THEN Pasar(h, "agregar ganador")
           ELSE hilos' = [hilos EXCEPT !.de[h].pc = "marcar", !.de[h].i = i + 1]
    /\ UNCHANGED <<varsJugada, varsGen, varsExport, varsSim>>

\* line 143: self.ganadores.append(carton)
AgregarGanador(h) ==
    /\ hilos.de[h].pc = "agregar ganador"
    /\ ganadores' = Append(ganadores, hilos.de[h].i)
    /\ hilos' = [hilos EXCEPT !.de[h].pc = "marcar", !.de[h].i = @ + 1]
    /\ UNCHANGED <<cartones, bolillas_cantadas, bolillas_disponibles,
                   jugada_terminada, resultado>>
    /\ UNCHANGED <<varsGen, varsExport, varsSim>>

\* line 146: if self.ganadores
MirarGanadores(h) ==
    /\ hilos.de[h].pc = "mirar ganadores"
    /\ Pasar(h, IF ganadores # <<>> THEN "terminar" ELSE "volver")
    /\ UNCHANGED <<varsJugada, varsGen, varsExport, varsSim>>

\* line 147: self.jugada_terminada = True
Terminar(h) ==
    /\ hilos.de[h].pc = "terminar"
    /\ jugada_terminada' = TRUE
    /\ Pasar(h, "volver")
    /\ UNCHANGED <<cartones, bolillas_cantadas, bolillas_disponibles, ganadores,
                   resultado>>
    /\ UNCHANGED <<varsGen, varsExport, varsSim>>

\* lines 149-157: the returned dict
VolverCantada(h) ==
    /\ hilos.de[h].pc = "volver"
    /\ Volver(h, Res("cantar", TRUE, "", hilos.de[h].numero))
    /\ UNCHANGED <<cartones, bolillas_cantadas, bolillas_disponibles, ganadores,
                   jugada_terminada>>
    /\ UNCHANGED <<varsGen, varsExport, varsSim>>

NextConc ==
    \E h \in Hilos :
        \/ \E numero \in BolillasConc : Entrar(h, numero)
        \/ GuardaTerminada(h)
        \/ GuardaDisponible(h)
        \/ Anotar(h)
        \/ Descartar(h)
        \/ Marcar(h)
        \/ ProbarGanador(h)
        \/ AgregarGanador(h)
        \/ MirarGanadores(h)
        \/ Terminar(h)
        \/ VolverCantada(h)

SpecConc == InitConc /\ [][NextConc]_vars

-----------------------------------------------------------------------------
(* generador_service: validar_configuracion and generar_combinaciones.      *)

\* Python's a % b, whose sign follows b (b # 0)
PyMod(a, b) == IF b > 0 THEN a % b ELSE -((-a) % (-b))

\* math.comb(n, k) for n >= 0 and k >= 0: exact
RECURSIVE comb_division_temprana(_, _)
comb_division_temprana(n, k) ==
    IF k = 0 THEN 1
    ELSE IF k > n THEN 0
    ELSE comb_division_temprana(n - 1, k - 1) * (n \div k)

RECURSIVE comb(_, _)
comb(n, k) ==
    IF k = 0 THEN 1
    ELSE IF k > n THEN 0
    ELSE (comb(n - 1, k - 1) * n) \div k

ConfiguracionBingo(bingos, por_carton, maximo, por_bingo, por_fila) ==
    [seed |-> 0, numero_de_bingos |-> bingos, numeros_por_carton |-> por_carton,
     numero_maximo |-> maximo, cartones_por_bingo |-> por_bingo,
     bingos_por_fila |-> por_fila]

combinaciones_necesarias(c) == c.numero_de_bingos * c.cartones_por_bingo

Si(condicion, error) == IF condicion THEN <<error>> ELSE <<>>

\* validar_configuracion: (ok, errores), or the exception that leaves it
validar_configuracion(c) ==
    LET positivos ==
            Si(c.numero_de_bingos <= 0, "NUMERO_DE_BINGOS debe ser mayor a 0")
            \o Si(c.numeros_por_carton <= 0, "NUMEROS_POR_CARTON debe ser mayor a 0")
            \o Si(c.numero_maximo <= 0, "NUMERO_MAXIMO debe ser mayor a 0")
        cabe == Si(c.numeros_por_carton > c.numero_maximo,
                   "NUMEROS_POR_CARTON no puede ser mayor que NUMERO_MAXIMO")
    IN  IF c.bingos_por_fila = 0
            THEN [ok |-> FALSE, errores |-> <<>>, excepcion |-> "ZeroDivisionError"]
        ELSE IF c.numero_maximo < 0 \/ c.numeros_por_carton < 0
            THEN [ok |-> FALSE, errores |-> <<>>, excepcion |-> "ValueError"]
        ELSE LET errores ==
                     positivos \o cabe
                     \o Si(PyMod(c.numero_de_bingos, c.bingos_por_fila) # 0,
                           "NUMERO_DE_BINGOS debe ser divisible por BINGOS_POR_FILA")
                     \o Si(combinaciones_necesarias(c)
                               > comb(c.numero_maximo, c.numeros_por_carton),
                           "Imposible generar")
             IN  [ok |-> Len(errores) = 0, errores |-> errores, excepcion |-> ""]

\* random.sample(range(1, maximo + 1), por_carton): por_carton distinct numbers in
\* any order
Muestras(maximo, por_carton) ==
    { m \in [1..por_carton -> 1..maximo] :
        \A i, j \in 1..por_carton : i # j => m[i] # m[j] }

\* insertion of x into an ascending tuple; sorted() of a list
RECURSIVE Insertar(_, _)
Insertar(x, t) ==
    IF t = <<>> THEN <<x>>
    ELSE IF x <= Head(t) THEN <<x>> \o t
    ELSE <<Head(t)>> \o Insertar(x, Tail(t))

RECURSIVE sorted(_)
sorted(m) == IF m = <<>> THEN <<>> ELSE Insertar(Head(m), sorted(Tail(m)))

Rotar(s, d) == [i \in 1..Len(s) |-> s[((i - 1 + d) % Len(s)) + 1]]

-----------------------------------------------------------------------------
(* cartones_unicos is a set of tuples of ints.  CPython keeps a set in a    *)
(* table of slots (Objects/setobject.c); the slot of a key comes from its   *)
(* hash (Objects/tupleobject.c), and list(set) reads the table slot by      *)
(* slot.  A hash is a 64-bit word, held here as its 8 bytes, the least      *)
(* significant first.  An empty slot is <<>>.  The routines are functions:  *)
(* they take their arguments by value.                                      *)

\* the word of an integer in 0..2^31-1; the hash of such an int is the int itself
Palabra[n \in Nat] ==
    << n % 256, (n \div 256) % 256, (n \div 65536) % 256, (n \div 16777216) % 256,
       0, 0, 0, 0 >>

\* a + b of two Py_uhash_t, modulo 2^64: the bytes from byte i on, given the
\* carry into byte i (Sumar[a, b, 1, 0] is the sum)
Sumar[a \in Seq(Nat), b \in Seq(Nat), i \in Nat, acarreo \in Nat] ==
    IF i > 8 THEN <<>>
    ELSE <<(a[i] + b[i] + acarreo) % 256>>
            \o Sumar[a, b, i + 1, (a[i] + b[i] + acarreo) \div 256]

\* a[i] * b[k + 1 - i] summed over i..k: what byte k of the product collects
Columna[a \in Seq(Nat), b \in Seq(Nat), k \in Nat, i \in Nat] ==
    IF i > k THEN 0 ELSE a[i] * b[k + 1 - i] + Columna[a, b, k, i + 1]

\* a * b of two Py_uhash_t, modulo 2^64: the bytes from byte k on, given the
\* carry into byte k (Multiplicar[a, b, 1, 0] is the product)
Multiplicar[a \in Seq(Nat), b \in Seq(Nat), k \in Nat, acarreo \in Nat] ==
    IF k > 8 THEN <<>>
    ELSE <<(Columna[a, b, k, 1] + acarreo) % 256>>
            \o Multiplicar[a, b, k + 1, (Columna[a, b, k, 1] + acarreo) \div 256]

\* a ^ b of two bytes
XorByte[a \in Nat, b \in Nat] ==
    IF a = 0 /\ b = 0 THEN 0
    ELSE ((a + b) % 2) + 2 * XorByte[a \div 2, b \div 2]

\* _PyHASH_XXROTATE(x): (x << 31) | (x >> 33), a turn of 32 bits to the left
\* and of one bit back; byte i of the result is made of bytes i + 4 and i + 5
XXROTATE[x \in Seq(Nat)] ==
    LET de(i) == (x[((i - 1 + 4) % 8) + 1] \div 2)
                    + (x[((i + 4) % 8) + 1] % 2) * 128
    IN  << de(1), de(2), de(3), de(4), de(5), de(6), de(7), de(8) >>

\* _PyHASH_XXPRIME_1 = 11400714785074694791 = 0x9E3779B185EBCA87
XXPRIME_1 == <<135, 202, 235, 133, 177, 121, 55, 158>>
\* _PyHASH_XXPRIME_2 = 14029467366897019727 = 0xC2B2AE3D27D4EB4F
XXPRIME_2 == <<79, 235, 212, 39, 61, 174, 178, 194>>
\* _PyHASH_XXPRIME_5 = 2870177450012600261 = 0x27D4EB2F165667C5
XXPRIME_5 == <<197, 103, 86, 22, 47, 235, 212, 39>>

\* tuplehash, the loop over the items from item i on
Lanes[t \in Seq(Nat), i \in Nat, acc \in Seq(Nat)] ==
    IF i > Len(t) THEN acc
    ELSE Lanes[t, i + 1,
               Multiplicar[XXROTATE[Sumar[acc,
                                          Multiplicar[Palabra[t[i]], XXPRIME_2, 1, 0],
                                          1, 0]],
                           XXPRIME_1, 1, 0]]

\* hash(t) of a tuple of ints
tuplehash[t \in Seq(Nat)] ==
    LET Xor(a, b) ==
            << XorByte[a[1], b[1]], XorByte[a[2], b[2]], XorByte[a[3], b[3]],
               XorByte[a[4], b[4]], XorByte[a[5], b[5]], XorByte[a[6], b[6]],
               XorByte[a[7], b[7]], XorByte[a[8], b[8]] >>
        acc == Sumar[Lanes[t, 1, XXPRIME_5],
                     Xor(Palabra[Len(t)], Xor(XXPRIME_5, Palabra[3527539])), 1, 0]
    IN  IF acc = <<255, 255, 255, 255, 255, 255, 255, 255>>
            THEN Palabra[1546275796] ELSE acc

\* (h >> desde) & mask for a table of n slots (mask = n - 1, n a power of two)
Bits[h \in Seq(Nat), desde \in Nat, n \in Nat] ==
    IF n <= 1 THEN 0
    ELSE (IF desde >= 64 THEN 0
          ELSE (h[(desde \div 8) + 1] \div (2 ^ (desde % 8))) % 2)
             + 2 * Bits[h, desde + 1, n \div 2]

\* setobject.c: PySet_MINSIZE, LINEAR_PROBES, PERTURB_SHIFT
PySet_MINSIZE == 8
LINEAR_PROBES == 9
PERTURB_SHIFT == 5

\* set()
set_vacio == [i \in 1..PySet_MINSIZE |-> <<>>]

\* list(set): the keys in the order of the slots
list_set(table) == SelectSeq(table, LAMBDA x : x # <<>>)

\* i = (i * 5 + 1 + perturb) & mask, perturb being hash >> (5 * ronda)
SiguienteSlot[table \in Seq(Seq(Nat)), h \in Seq(Nat), i \in Nat, ronda \in Nat] ==
    (i * 5 + 1 + Bits[h, PERTURB_SHIFT * ronda, Len(table)]) % Len(table)

\* set_insert_clean looks at slot i and at the LINEAR_PROBES slots after it for
\* an empty one (slots count from 0); -1 when none is
RecorrerLibre[table \in Seq(Seq(Nat)), i \in Nat, quedan \in Nat] ==
    IF table[i + 1] = <<>> THEN i
    ELSE IF quedan = 0 THEN -1
    ELSE RecorrerLibre[table, i + 1, quedan - 1]

BuscarLibre[table \in Seq(Seq(Nat)), h \in Seq(Nat), i \in Nat, ronda \in Nat] ==
    IF RecorrerLibre[table, i, IF i + LINEAR_PROBES <= Len(table) - 1
                                   THEN LINEAR_PROBES ELSE 0] >= 0
        THEN RecorrerLibre[table, i, IF i + LINEAR_PROBES <= Len(table) - 1
                                         THEN LINEAR_PROBES ELSE 0]
    ELSE BuscarLibre[table, h, SiguienteSlot[table, h, i, ronda + 1], ronda + 1]

\* set_insert_clean(table, mask, key, hash)
set_insert_clean[table \in Seq(Seq(Nat)), key \in Seq(Nat), h \in Seq(Nat)] ==
    [table EXCEPT ![BuscarLibre[table, h, Bits[h, 0, Len(table)], 0] + 1] = key]

\* newsize = PySet_MINSIZE; while (newsize <= minused) newsize <<= 1
Tamano[newsize \in Nat, minused \in Nat] ==
    IF newsize <= minused THEN Tamano[newsize * 2, minused] ELSE newsize

\* set_table_resize, the copy: the keys of the old table, slot by slot from slot
\* i on, go into the new one
Copiar[vieja \in Seq(Seq(Nat)), i \in Nat, nueva \in Seq(Seq(Nat))] ==
    IF i > Len(vieja) THEN nueva
    ELSE Copiar[vieja, i + 1,
                IF vieja[i] = <<>> THEN nueva
                ELSE set_insert_clean[nueva, vieja[i], tuplehash[vieja[i]]]]

\* set_table_resize(so, minused)
set_table_resize[table \in Seq(Seq(Nat)), minused \in Nat] ==
    Copiar[table, 1, [i \in 1..Tamano[PySet_MINSIZE, minused] |-> <<>>]]

\* set_add_entry looks at slot i and at the probes after it for the key or for
\* an empty slot; -1 when neither is there
Recorrer[table \in Seq(Seq(Nat)), key \in Seq(Nat), i \in Nat, quedan \in Nat] ==
    IF table[i + 1] = <<>> \/ table[i + 1] = key THEN i
    ELSE IF quedan = 0 THEN -1
    ELSE Recorrer[table, key, i + 1, quedan - 1]

Buscar[table \in Seq(Seq(Nat)), key \in Seq(Nat), h \in Seq(Nat), i \in Nat, ronda \in Nat] ==
    IF Recorrer[table, key, i, IF i + LINEAR_PROBES <= Len(table) - 1
                                   THEN LINEAR_PROBES ELSE 0] >= 0
        THEN Recorrer[table, key, i, IF i + LINEAR_PROBES <= Len(table) - 1
                                         THEN LINEAR_PROBES ELSE 0]
    ELSE Buscar[table, key, h, SiguienteSlot[table, h, i, ronda + 1], ronda + 1]

\* set_add_entry(so, key, hash): the key goes to the slot the search ends at
\* (counted from 0) unless it is there; a table filled to 3/5 is resized
\* (so->fill = so->used: nothing is ever removed from the set)
set_add_entry[table \in Seq(Seq(Nat)), key \in Seq(Nat), h \in Seq(Nat)] ==
    LET en == Buscar[table, key, h, Bits[h, 0, Len(table)], 0]
        fill == Cardinality({ i \in 1..Len(table) : table[i] # <<>> }) + 1
    IN  IF table[en + 1] = key THEN table
        ELSE IF fill * 5 < (Len(table) - 1) * 3
            THEN [table EXCEPT ![en + 1] = key]
        ELSE set_table_resize[[table EXCEPT ![en + 1] = key],
                              IF fill > 50000 THEN fill * 2 ELSE fill * 4]

\* set_add_key(so, key): cartones_unicos.add(carton)
set_add_key[table \in Seq(Seq(Nat)), key \in Seq(Nat)] ==
    set_add_entry[table, key, tuplehash[key]]

\* the loop of generar_combinaciones on the cards of a list, drawn one after
\* another from draw i on
AgregarDesde[orden \in Seq(Seq(Nat)), i \in Nat, set \in Seq(Seq(Nat))] ==
    IF i > Len(orden) THEN set
    ELSE AgregarDesde[orden, i + 1, set_add_key[set, orden[i]]]

\* cartones_unicos after the cards of a list were drawn in that order
TablaDe(orden) == AgregarDesde[orden, 1, set_vacio]

Configuraciones ==
    { ConfiguracionBingo(b, k, m, cb, bf) :
        b \in -1..MaxBingos, k \in -1..MaxPorCarton, m \in -1..MaxNumero,
        cb \in -1..MaxCartonesPorBingo, bf \in -1..MaxPorFila }

JugadaInactiva ==
    /\ cartones = <<>>
    /\ bolillas_cantadas = <<>>
    /\ bolillas_disponibles = {}
    /\ ganadores = <<>>
    /\ jugada_terminada = FALSE
    /\ resultado = Res("inactiva", TRUE, "", 0)
    /\ hilos = <<>>

InitGen ==
    /\ config \in Configuraciones
    /\ cartones_unicos = {}
    /\ tabla = set_vacio
    /\ pc = "validar"
    /\ validacion = <<>>
    /\ retorno = <<>>
    /\ progreso = <<>>
    /\ JugadaInactiva /\ ExportInactivo /\ SimInactivo

\* generar_bingos, lines 243-249: validate, stop on failure
Validar ==
    /\ pc = "validar"
    /\ validacion' = validar_configuracion(config)
    /\ pc' = IF validacion'.excepcion # "" THEN "excepcion"
             ELSE IF validacion'.ok THEN "generar" ELSE "rechazada"
    /\ UNCHANGED <<progreso, config, cartones_unicos, tabla, retorno>>
    /\ UNCHANGED <<varsHilos, varsJugada, varsExport, varsSim>>

\* the loop turn that keeps only the combination just drawn
Muestrear_reemplaza(m) ==
    /\ pc = "generar"
    /\ Cardinality(cartones_unicos) < combinaciones_necesarias(config)
    /\ LET carton == sorted(m)
       IN  /\ cartones_unicos' = {carton}
           /\ tabla' = set_add_key[set_vacio, carton]
    /\ progreso' =
          IF Cardinality(cartones_unicos') % PeriodoProgreso = 0
              THEN Append(progreso, <<Cardinality(cartones_unicos'),
                                      combinaciones_necesarias(config)>>)
          ELSE progreso
    /\ UNCHANGED <<config, pc, validacion, retorno>>
    /\ UNCHANGED <<varsHilos, varsJugada, varsExport, varsSim>>

\* generar_combinaciones, one turn of the while loop with a callback given, m
\* being what random.sample returned
Muestrear(m) ==
    /\ pc = "generar"
    /\ Cardinality(cartones_unicos) < combinaciones_necesarias(config)
    /\ LET carton == sorted(m)
       IN  /\ cartones_unicos' = cartones_unicos \cup {carton}
           /\ tabla' = set_add_key[tabla, carton]
    /\ progreso' =
          IF Cardinality(cartones_unicos') % PeriodoProgreso = 0
              THEN Append(progreso, <<Cardinality(cartones_unicos'),
                                      combinaciones_necesarias(config)>>)
          ELSE progreso
    /\ UNCHANGED <<config, pc, validacion, retorno>>
    /\ UNCHANGED <<varsHilos, varsJugada, varsExport, varsSim>>

\* generar_combinaciones, the loop condition fails: return list(cartones_unicos)
Retornar ==
    /\ pc = "generar"
    /\ ~(Cardinality(cartones_unicos) < combinaciones_necesarias(config))
    /\ retorno' = list_set(tabla)
    /\ pc' = "hecho"
    /\ UNCHANGED <<progreso, config, cartones_unicos, tabla, validacion>>
    /\ UNCHANGED <<varsHilos, varsJugada, varsExport, varsSim>>

NextGen ==
    \/ Validar
    \/ \E m \in Muestras(config.numero_maximo, config.numeros_por_carton) : Muestrear(m)
    \/ Retornar

SpecGen == InitGen /\ [][NextGen]_vars

\* a loop turn, whatever it draws
MuestrearAlgo ==
    \E m \in Muestras(config.numero_maximo, config.numeros_por_carton) : Muestrear(m)

\* the run goes on while it can (the code is sequential), and random.sample
\* keeps drawing every combination, so that while one is missing a turn that
\* adds a combination comes at last (a turn that draws a repeated one leaves
\* every variable as it was)
InitGenJusta == InitGen /\ config.numero_maximo <= MaxNumeroJusto

SpecGenJusta ==
    /\ InitGenJusta /\ [][NextGen]_vars
    /\ WF_vars(Validar)
    /\ WF_vars(MuestrearAlgo)
    /\ WF_vars(Retornar)

-----------------------------------------------------------------------------
(* generar_combinaciones on configurations large enough for the progress    *)
(* callback: one-number cards out of 1..MaxBingosProgreso.  The draws are   *)
(* the next number not yet accepted, or the one accepted last again.        *)

ConfiguracionesProgreso ==
    { ConfiguracionBingo(b, 1, MaxBingosProgreso, 1, 1) :
        b \in {PeriodoProgreso - 1, PeriodoProgreso, MaxBingosProgreso} }

InitProgreso ==
    /\ config \in ConfiguracionesProgreso
    /\ cartones_unicos = {}
    /\ tabla = set_vacio
    /\ pc = "validar"
    /\ validacion = <<>>
    /\ retorno = <<>>
    /\ progreso = <<>>
    /\ JugadaInactiva /\ ExportInactivo /\ SimInactivo

\* what random.sample returns in these runs
MuestrasEnOrden ==
    LET n == Cardinality(cartones_unicos)
    IN  { <<n + 1>> } \cup (IF n >= 1 /\ Len(progreso) < MaxAvisos THEN { <<n>> } ELSE {})

\* validation, then the loop of generar_combinaciones up to its exit
NextProgreso ==
    \/ Validar
    \/ \E m \in MuestrasEnOrden : Muestrear(m)

SpecProgreso == InitProgreso /\ [][NextProgreso]_vars

-----------------------------------------------------------------------------
(* generador_service: the rest of generar_bingos (crear_dataframe_simple,   *)
(* crear_dataframe_corel, to_csv, ejecutar_auditoria).  A DataFrame is its  *)
(* list of rows; 'excepcion' names the exception that left the call, if any.*)

\* Python's a // b (b # 0): the floor of the quotient
PyDiv(a, b) == IF b > 0 THEN a \div b ELSE (-a) \div (-b)

\* f"{n:04d}" for n >= 0
Formato04d(n) == zfill(str(n), AnchoFormato)

\* int(s) of a cell that to_csv wrote as decimal digits, as pd.read_csv infers it
int(s) == CHOOSE n \in EnterosLeidos : zfill(str(n), Len(s)) = s

Marco(excepcion, columnas, filas) ==
    [excepcion |-> excepcion, columnas |-> columnas, filas |-> filas]

\* [f'Num_{i+1}' for i in range(k)]
ColumnasSimple(k) == [i \in 1..k |-> "Num_" \o str(i)]

\* crear_dataframe_simple: pd.DataFrame(cartones_lista) has as many columns as
\* the tuples are long (none when the list is empty); df.columns = ... must match
crear_dataframe_simple(cartones_lista, c) ==
    LET ancho == IF cartones_lista = <<>> THEN 0 ELSE Len(cartones_lista[1])
    IN  IF ancho # c.numeros_por_carton
            THEN Marco("ValueError", <<>>, <<>>)
        ELSE Marco("", ColumnasSimple(c.numeros_por_carton), cartones_lista)

\* fila_datos.extend(cartones_lista[base + i]) for i in range(n); base is 0-based
RECURSIVE Extender(_, _, _)
Extender(cartones_lista, base, n) ==
    IF n <= 0 THEN <<>>
    ELSE Extender(cartones_lista, base, n - 1) \o cartones_lista[base + (n - 1) + 1]

filas_corel(c) == PyDiv(c.numero_de_bingos, c.bingos_por_fila)
inicio_carton_2(c) == PyDiv(c.numero_de_bingos, 2) + 1
base_izq(c, fila) == fila * c.cartones_por_bingo
base_der(c, fila) == (filas_corel(c) + fila) * c.cartones_por_bingo

\* the indices of cartones_lista that row fila (0-based) reads
IndicesDeFila(c, fila) ==
    { base_izq(c, fila) + i : i \in 0..(c.cartones_por_bingo - 1) }
    \cup { base_der(c, fila) + i : i \in 0..(c.cartones_por_bingo - 1) }

\* the row built for fila (0-based): idx_carton1 is 1 + fila, idx_carton2 is
\* inicio_carton_2 + fila
fila_datos_sin_mitades(cartones_lista, c, fila) ==
    <<Formato04d(1 + fila)>>
    \o Extender(cartones_lista, 2 * base_izq(c, fila), c.cartones_por_bingo)
    \o <<Formato04d(inicio_carton_2(c) + fila)>>
    \o Extender(cartones_lista, 2 * base_izq(c, fila) + c.cartones_por_bingo,
                c.cartones_por_bingo)

fila_datos(cartones_lista, c, fila) ==
    <<Formato04d(1 + fila)>>
    \o Extender(cartones_lista, base_izq(c, fila), c.cartones_por_bingo)
    \o <<Formato04d(inicio_carton_2(c) + fila)>>
    \o Extender(cartones_lista, base_der(c, fila), c.cartones_por_bingo)

\* [f'{letra}{i}' for i in range(1, k + 1)]
Nombres(letra, k) == [i \in 1..k |-> letra \o str(i)]

columnas(c) ==
    <<"CARTON 1">> \o Nombres("A", c.numeros_por_carton)
    \o Nombres("B", c.numeros_por_carton) \o Nombres("C", c.numeros_por_carton)
    \o <<"CARTON 2">> \o Nombres("D", c.numeros_por_carton)
    \o Nombres("E", c.numeros_por_carton) \o Nombres("F", c.numeros_por_carton)

\* crear_dataframe_corel: a list index past the end raises IndexError; rows whose
\* length differs from the header's make pd.DataFrame raise ValueError
crear_dataframe_corel(cartones_lista, c) ==
    IF \E fila \in 0..(filas_corel(c) - 1) :
           \E i \in IndicesDeFila(c, fila) : i >= Len(cartones_lista)
        THEN Marco("IndexError", <<>>, <<>>)
    ELSE LET filas == [r \in 1..filas_corel(c) |-> fila_datos(cartones_lista, c, r - 1)]
         IN  IF \E r \in 1..Len(filas) : Len(filas[r]) # Len(columnas(c))
                 THEN Marco("ValueError", <<>>, <<>>)
             ELSE Marco("", columnas(c), filas)

\* df_corel.to_csv followed by pd.read_csv: the two id columns, written as digit
\* strings, come back as integers; the number cells are integers throughout
LeerCsv(df, c) ==
    LET id2 == 1 + c.cartones_por_bingo * c.numeros_por_carton + 1
    IN  [r \in 1..Len(df.filas) |->
            [j \in 1..Len(df.filas[r]) |->
                IF j = 1 \/ j = id2 THEN int(df.filas[r][j]) ELSE df.filas[r][j]]]

Verificacion(nombre, ok) == [nombre |-> nombre, ok |-> ok]

\* ejecutar_auditoria: (todas_ok, verificaciones); each check is its name and 'ok'
ejecutar_auditoria_corta(simple, corel, c) ==
    LET filas == simple.filas
        verificaciones ==
            << Verificacion("Cantidad de combinaciones",
                            Len(filas) = combinaciones_necesarias(c)),
               Verificacion("Filas Corel", Len(corel.filas) = filas_corel(c)) >>
    IN  [todas_ok |-> \A i \in 1..Len(verificaciones) : verificaciones[i].ok,
         verificaciones |-> verificaciones]

ejecutar_auditoria(simple, corel, c) ==
    LET filas == simple.filas
        verificaciones ==
            << Verificacion("Cantidad de combinaciones",
                            Len(filas) = combinaciones_necesarias(c)),
               Verificacion("Numeros por carton",
                            Len(simple.columnas) = c.numeros_por_carton),
               Verificacion("Combinaciones unicas",
                            Len(filas) = Cardinality(Rango(filas))),
               Verificacion("Rango de numeros",
                            \A r \in 1..Len(filas) : \A j \in 1..Len(filas[r]) :
                                filas[r][j] >= 1 /\ filas[r][j] <= c.numero_maximo),
               Verificacion("Sin repetidos internos",
                            \A r \in 1..Len(filas) :
                                Len(filas[r]) = Cardinality(Rango(filas[r]))),
               Verificacion("Filas Corel", Len(corel.filas) = filas_corel(c)) >>
    IN  [todas_ok |-> \A i \in 1..Len(verificaciones) : verificaciones[i].ok,
         verificaciones |-> verificaciones]

\* simulador_service.cargar_cartones_corel: cards are dicts, ids are str(cell)
CartonSim(bingo_id, carton_tipo, numeros) ==
    [bingo_id |-> bingo_id, carton_tipo |-> carton_tipo, numeros |-> numeros]

CartonesSimDeFila(fila) ==
    LET bingo_id_1 == str(fila[0 + 1])
        bingo_id_2 == str(fila[ColumnaId2 + 1])
        De(id, tipo) == CartonSim(id, tipo,
                                  Rebanada(fila, tipos_carton(tipo)[1], tipos_carton(tipo)[2]))
    IN  << De(bingo_id_1, "A"), De(bingo_id_1, "B"), De(bingo_id_1, "C"),
           De(bingo_id_2, "D"), De(bingo_id_2, "E"), De(bingo_id_2, "F") >>

RECURSIVE cargar_cartones_corel(_)
cargar_cartones_corel(filas) ==
    IF filas = <<>> THEN <<>>
    ELSE CartonesSimDeFila(Head(filas)) \o cargar_cartones_corel(Tail(filas))

\* fila.iloc[31] raises IndexError on a row of fewer than 32 cells
Legible(filas) == \A r \in 1..Len(filas) : Len(filas[r]) > ColumnaId2

Carga(excepcion, cs) == [excepcion |-> excepcion, cartones |-> cs]

\* EstadoJugada(archivo).cartones, or the exception of the constructor
CargarEnVivoDe(filas) ==
    IF Legible(filas) THEN Carga("", _cargar_cartones(filas))
    ELSE Carga("IndexError", <<>>)

\* cargar_cartones_corel(archivo), or its exception
CargarSimuladorDe(filas) ==
    IF Legible(filas) THEN Carga("", cargar_cartones_corel(filas))
    ELSE Carga("IndexError", <<>>)

-----------------------------------------------------------------------------
(* The pools and configurations the export is run on.                       *)

\* the j-th card of a pool: numeros_por_carton consecutive numbers (cyclic in
\* 1..numero_maximo) from j, ascending as generar_combinaciones leaves them
Ventana(j, c) ==
    sorted([i \in 1..c.numeros_por_carton |->
               ((j - 1 + i - 1) % c.numero_maximo) + 1])

\* the cards of a run in the order the loop drew them
Pool(c) == [j \in 1..combinaciones_necesarias(c) |-> Ventana(j, c)]


\* accepted configurations whose pool the windows can fill
ConfiguracionesExport ==
    { c \in { ConfiguracionBingo(b, k, NumeroMaximoExport, cb, bf) :
                b \in 1..MaxBingosExport,
                k \in {2, AnchoCarton, MaxPorCartonExport},
                cb \in 1..MaxCartonesPorBingo,
                bf \in (-1..MaxPorFila) \ {0} } :
        /\ validar_configuracion(c).ok
        /\ combinaciones_necesarias(c) <= c.numero_maximo }

InitExport ==
    /\ config \in ConfiguracionesExport
    /\ \E d \in 0..MaxGiro : tabla = TablaDe(Rotar(Pool(config), d))
    /\ retorno = list_set(tabla)
    /\ cartones_unicos = Rango(retorno)
    /\ validacion = validar_configuracion(config)
    /\ pc = "hecho"
    /\ progreso = <<>>
    /\ JugadaInactiva /\ ExportInactivo /\ SimInactivo

\* generar_bingos after generar_combinaciones: both frames, the saved files, the
\* audit; an exception of crear_dataframe_* leaves the call before anything is saved
Exportar ==
    /\ pc = "hecho"
    /\ LET ds == crear_dataframe_simple(retorno, config)
           dc == crear_dataframe_corel(retorno, config)
       IN  IF ds.excepcion # ""
               THEN /\ df_simple' = ds
                    /\ pc' = "excepcion"
                    /\ UNCHANGED <<df_corel, archivo_corel, auditoria>>
           ELSE IF dc.excepcion # ""
               THEN /\ df_simple' = ds
                    /\ df_corel' = dc
                    /\ pc' = "excepcion"
                    /\ UNCHANGED <<archivo_corel, auditoria>>
           ELSE /\ df_simple' = ds
                /\ df_corel' = dc
                /\ archivo_corel' = LeerCsv(dc, config)
                /\ auditoria' = ejecutar_auditoria(ds, dc, config)
                /\ pc' = "exportado"
    /\ UNCHANGED <<progreso, config, cartones_unicos, tabla, validacion, retorno>>
    /\ UNCHANGED <<varsHilos, varsJugada, varsSim>>

\* EstadoJugada(archivo_corel) on the saved file
CargarEnVivo ==
    /\ pc = "exportado"
    /\ cargados' = CargarEnVivoDe(archivo_corel)
    /\ pc' = "cargado en vivo"
    /\ UNCHANGED <<progreso, config, cartones_unicos, tabla, validacion, retorno, resultados, estadisticas>>
    /\ UNCHANGED <<varsHilos, varsJugada, varsExport>>

\* cargar_cartones_corel(archivo_corel) on the saved file
CargarSimulador ==
    /\ pc = "exportado"
    /\ cargados' = CargarSimuladorDe(archivo_corel)
    /\ pc' = "cargado en simulador"
    /\ UNCHANGED <<progreso, config, cartones_unicos, tabla, validacion, retorno, resultados, estadisticas>>
    /\ UNCHANGED <<varsHilos, varsJugada, varsExport>>

NextExport == Exportar \/ CargarEnVivo \/ CargarSimulador

SpecExport == InitExport /\ [][NextExport]_vars

-----------------------------------------------------------------------------
(* ejecutar_auditoria on its own: the frames of an export, sound or damaged  *)
(* the way the six checks look for (non-empty, rectangular frames).          *)

Alteraciones ==
    {"ninguna", "falta una fila", "fila repetida", "numero alto", "numero cero",
     "repetido interno", "falta una columna"}

Alterar(m, a, c) ==
    CASE a = "ninguna" -> m
      [] a = "falta una fila" ->
            IF Len(m.filas) >= 2 THEN [m EXCEPT !.filas = SinUltimo(@)] ELSE m
      [] a = "fila repetida" ->
            IF Len(m.filas) >= 2
                THEN [m EXCEPT !.filas[Len(m.filas)] = m.filas[1]] ELSE m
      [] a = "numero alto" -> [m EXCEPT !.filas[1][1] = c.numero_maximo + 1]
      [] a = "numero cero" -> [m EXCEPT !.filas[1][1] = 0]
      [] a = "repetido interno" ->
            IF Len(m.columnas) >= 2
                THEN [m EXCEPT !.filas[1][2] = m.filas[1][1]] ELSE m
      [] a = "falta una columna" ->
            IF Len(m.columnas) >= 2
                THEN [m EXCEPT !.columnas = SinUltimo(@),
                               !.filas = [r \in 1..Len(@) |-> SinUltimo(@[r])]]
            ELSE m

\* configurations whose export gives both frames
ConfiguracionesAud ==
    { c \in ConfiguracionesExport :
        /\ c.numero_de_bingos <= MaxBingosAud
        /\ crear_dataframe_simple(list_set(TablaDe(Pool(c))), c).excepcion = ""
        /\ crear_dataframe_corel(list_set(TablaDe(Pool(c))), c).excepcion = "" }

InitAud ==
    /\ config \in ConfiguracionesAud
    /\ tabla = TablaDe(Pool(config))
    /\ retorno = list_set(tabla)
    /\ cartones_unicos = Rango(retorno)
    /\ validacion = validar_configuracion(config)
    /\ \E a1, a2 \in Alteraciones :
          df_simple = Alterar(Alterar(crear_dataframe_simple(retorno, config),
                                      a1, config), a2, config)
    /\ \E a \in {"ninguna", "falta una fila"} :
          df_corel = Alterar(crear_dataframe_corel(retorno, config), a, config)
    /\ archivo_corel = <<>>
    /\ auditoria = <<>>
    /\ pc = "auditar"
    /\ progreso = <<>>
    /\ JugadaInactiva /\ SimInactivo

Auditar ==
    /\ pc = "auditar"
    /\ auditoria' = ejecutar_auditoria(df_simple, df_corel, config)
    /\ pc' = "auditado"
    /\ UNCHANGED <<progreso, config, cartones_unicos, tabla, validacion, retorno, df_simple,
                   df_corel, archivo_corel>>
    /\ UNCHANGED <<varsHilos, varsJugada, varsSim>>

NextAud == Auditar

SpecAud == InitAud /\ [][NextAud]_vars

-----------------------------------------------------------------------------
(* simulador_service: ejecutar_simulacion (cargar_cartones_corel, one        *)
(* simular_jugada per trial, calcular_estadisticas).                        *)

ConfiguracionSimulacion(numero_jugadas) == [numero_jugadas |-> numero_jugadas]

ResultadoJugada(jugada_num, bolillas_hasta_ganador, gs, orden_bolillas) ==
    [jugada_num |-> jugada_num, bolillas_hasta_ganador |-> bolillas_hasta_ganador,
     cantidad_ganadores |-> Len(gs), ganadores |-> gs,
     orden_bolillas |-> orden_bolillas]

\* the winners appended while ball 'bolilla' is marked on cards i..Len(cs):
\* cards holding the ball whose hits then number numeros_por_carton
RECURSIVE GanadoresDeBolilla(_, _, _, _, _)
GanadoresDeBolilla(cs, cantadas, bolilla, numeros_por_carton, i) ==
    IF i > Len(cs) THEN <<>>
    ELSE LET resto == GanadoresDeBolilla(cs, cantadas, bolilla, numeros_por_carton, i + 1)
         IN  IF /\ bolilla \in cs[i].numeros
                /\ Cardinality(cs[i].numeros \cap (cantadas \cup {bolilla}))
                      = numeros_por_carton
                 THEN <<[bingo_id |-> cs[i].bingo_id,
                         carton_tipo |-> cs[i].carton_tipo]>> \o resto
             ELSE resto

\* the for loop over orden_bolillas from ball number pos on: stop at the first
\* ball that appends a winner, or when the balls run out
RECURSIVE JugarDesde(_, _, _, _)
JugarDesde(cs, orden_bolillas, numeros_por_carton, pos) ==
    IF pos > Len(orden_bolillas)
        THEN ResultadoJugada(0, Len(orden_bolillas), <<>>, orden_bolillas)
    ELSE LET cantadas == { orden_bolillas[j] : j \in 1..(pos - 1) }
             gs == GanadoresDeBolilla(cs, cantadas, orden_bolillas[pos],
                                      numeros_por_carton, 1)
         IN  IF gs # <<>>
                 THEN ResultadoJugada(0, pos, gs, Hasta(orden_bolillas, pos))
             ELSE JugarDesde(cs, orden_bolillas, numeros_por_carton, pos + 1)

\* simular_jugada, orden_bolillas being what random.shuffle left
simular_jugada(cs, orden_bolillas, numeros_por_carton) ==
    JugarDesde(cs, orden_bolillas, numeros_por_carton, 1)

\* Counter(lista), as the dict of its counts
Counter(lista) ==
    [x \in Rango(lista) |-> Cardinality({ i \in 1..Len(lista) : lista[i] = x })]

\* Counter(lista).most_common(1): the most frequent element, the one seen first
\* among equals, with its count; ('N/A', 0) when there is none
Top(lista) ==
    IF lista = <<>> THEN <<"N/A", 0>>
    ELSE LET n == Counter(lista)
             i == CHOOSE i \in 1..Len(lista) :
                     /\ \A j \in 1..Len(lista) : n[lista[j]] <= n[lista[i]]
                     /\ \A j \in 1..(i - 1) : n[lista[j]] < n[lista[i]]
         IN  <<lista[i], n[lista[i]]>>

min(lista) == CHOOSE x \in Rango(lista) : \A y \in Rango(lista) : x <= y
max(lista) == CHOOSE x \in Rango(lista) : \A y \in Rango(lista) : x >= y

\* [g[campo] for r in resultados for g in r.ganadores]
RECURSIVE CamposGanadores(_, _)
CamposGanadores(rs, campo) ==
    IF rs = <<>> THEN <<>>
    ELSE [i \in 1..Len(Head(rs).ganadores) |-> Head(rs).ganadores[i][campo]]
         \o CamposGanadores(Tail(rs), campo)

\* the same, with one winner a trial
RECURSIVE CamposPrimerGanador(_, _)
CamposPrimerGanador(rs, campo) ==
    IF rs = <<>> THEN <<>>
    ELSE (IF Head(rs).ganadores = <<>> THEN <<>>
          ELSE <<Head(rs).ganadores[1][campo]>>)
         \o CamposPrimerGanador(Tail(rs), campo)

EstadisticasSimulacion(bolillas, cantidades, bingos_ganadores, cartones_ganadores) ==
    [excepcion |-> "",
     bolillas_min |-> min(bolillas), bolillas_max |-> max(bolillas),
     ganadores_max |-> max(cantidades),
     distribucion_ganadores |-> Counter(cantidades),
     frecuencia_bingos |-> Counter(bingos_ganadores),
     frecuencia_cartones |-> Counter(cartones_ganadores),
     top_bingo |-> Top(bingos_ganadores),
     top_carton |-> Top(cartones_ganadores)]

\* min([]) raises ValueError
SinEstadisticas == [excepcion |-> "ValueError"]

\* calcular_estadisticas; the floating point fields (media, mediana,
\* desviacion) are not part of the model
calcular_estadisticas_un_ganador(rs) ==
    IF rs = <<>> THEN SinEstadisticas
    ELSE EstadisticasSimulacion(
             [i \in 1..Len(rs) |-> rs[i].bolillas_hasta_ganador],
             [i \in 1..Len(rs) |-> rs[i].cantidad_ganadores],
             CamposPrimerGanador(rs, "bingo_id"),
             CamposPrimerGanador(rs, "carton_tipo"))

calcular_estadisticas(rs) ==
    IF rs = <<>> THEN SinEstadisticas
    ELSE EstadisticasSimulacion(
             [i \in 1..Len(rs) |-> rs[i].bolillas_hasta_ganador],
             [i \in 1..Len(rs) |-> rs[i].cantidad_ganadores],
             CamposGanadores(rs, "bingo_id"),
             CamposGanadores(rs, "carton_tipo"))

\* what random.shuffle can leave: the balls 1..NumBolillas from any first ball,
\* upwards or downwards (cyclic), then the other balls in ascending order
OrdenBolillas(inicio, sentido) ==
    [i \in 1..BolillasTotales |->
        IF i <= NumBolillas
            THEN ((inicio - 1 + sentido * (i - 1)) % NumBolillas) + 1
        ELSE i]

Ordenes == { OrdenBolillas(inicio, sentido) :
                inicio \in 1..NumBolillas, sentido \in {1, -1} }

InitSim ==
    /\ archivo_corel \in ArchivosSim
    /\ config \in { ConfiguracionSimulacion(n) : n \in 0..MaxJugadas }
    /\ cargados = <<>>
    /\ resultados = <<>>
    /\ estadisticas = <<>>
    /\ pc = "cargar"
    /\ cartones_unicos = {} /\ validacion = <<>> /\ retorno = <<>> /\ progreso = <<>>
    /\ tabla = <<>>
    /\ df_simple = <<>> /\ df_corel = <<>> /\ auditoria = <<>>
    /\ JugadaInactiva

\* ejecutar_simulacion: cargar_cartones_corel, and the early return on an exception
CargarCartones ==
    /\ pc = "cargar"
    /\ cargados' = CargarSimuladorDe(archivo_corel)
    /\ pc' = IF cargados'.excepcion # "" THEN "error de carga" ELSE "simular"
    /\ UNCHANGED <<progreso, config, cartones_unicos, tabla, validacion, retorno, resultados,
                   estadisticas>>
    /\ UNCHANGED <<varsHilos, varsJugada, varsExport>>

\* ejecutar_simulacion: one turn of the loop over range(numero_jugadas)
SimularJugada ==
    /\ pc = "simular"
    /\ Len(resultados) < config.numero_jugadas
    /\ \E orden_bolillas \in Ordenes :
          resultados' =
              Append(resultados,
                     [simular_jugada(cargados.cartones, orden_bolillas,
                                     NumerosPorCartonSim)
                         EXCEPT !.jugada_num = Len(resultados) + 1])
    /\ UNCHANGED <<progreso, config, cartones_unicos, tabla, pc, validacion, retorno, cargados,
                   estadisticas>>
    /\ UNCHANGED <<varsHilos, varsJugada, varsExport>>

\* ejecutar_simulacion: after the loop, calcular_estadisticas
CalcularEstadisticas ==
    /\ pc = "simular"
    /\ ~(Len(resultados) < config.numero_jugadas)
    /\ estadisticas' = calcular_estadisticas(resultados)
    /\ pc' = IF estadisticas'.excepcion # "" THEN "excepcion" ELSE "terminada"
    /\ UNCHANGED <<progreso, config, cartones_unicos, tabla, validacion, retorno, cargados,
                   resultados>>
    /\ UNCHANGED <<varsHilos, varsJugada, varsExport>>

NextSim == CargarCartones \/ SimularJugada \/ CalcularEstadisticas

SpecSim == InitSim /\ [][NextSim]_vars

-----------------------------------------------------------------------------
(* Helpers of the properties.                                               *)

NumCartones == Len(cartones)
Completo(c) == c.aciertos = c.numeros

\* the same card population: identities and number sets, whatever is marked
MismosCartones(cs, ds) ==
    /\ Len(cs) = Len(ds)
    /\ \A i \in 1..Len(cs) :
          /\ cs[i].bingo_id = ds[i].bingo_id
          /\ cs[i].carton_tipo = ds[i].carton_tipo
          /\ cs[i].numeros = ds[i].numeros

\* what one operation can make of a game
Sucesores(e) ==
    { cantar_bolilla(e, n).estado :
        n \in { m \in Entradas : OrdenPermitido(Append(e.bolillas_cantadas, m)) } }
    \cup { deshacer_bolilla(e).estado, reiniciar(e) }

RECURSIVE Cierre(_, _)
Cierre(vistos, frontera) ==
    IF frontera = {} THEN vistos
    ELSE LET nuevos == (UNION { Sucesores(e) : e \in frontera }) \ vistos
         IN  Cierre(vistos \cup nuevos, nuevos)

\* every game that call, undo and reset can make of e
Alcanzables(e) == Cierre({e}, {e})

\* what a successful call of n does to game e, r being what cantar_bolilla gave
EfectoCantar(e, n, r) ==
    /\ r.res = Res("cantar", TRUE, "", n)
    /\ r.estado.bolillas_cantadas = Append(e.bolillas_cantadas, n)
    /\ r.estado.bolillas_disponibles = e.bolillas_disponibles \ {n}
    /\ n \notin r.estado.bolillas_disponibles
    /\ MismosCartones(r.estado.cartones, e.cartones)
    /\ \A i \in 1..Len(e.cartones) :
          r.estado.cartones[i].aciertos =
              IF n \in e.cartones[i].numeros
                  THEN e.cartones[i].aciertos \cup {n}
                  ELSE e.cartones[i].aciertos
    /\ r.estado.jugada_terminada <=> (r.estado.ganadores # <<>>)

-----------------------------------------------------------------------------
(* C1: for every configuration the validator accepts, generar_combinaciones *)
(* returns exactly numero_de_bingos * cartones_por_bingo combinations,      *)
(* pairwise distinct, each an ascending tuple of numeros_por_carton         *)
(* distinct integers of 1..numero_maximo.                                   *)
C1_GeneraLasNecesarias ==
    pc = "hecho" =>
        /\ Len(retorno) = config.numero_de_bingos * config.cartones_por_bingo
        /\ \A i, j \in 1..Len(retorno) : i # j => retorno[i] # retorno[j]
        /\ \A i \in 1..Len(retorno) :
              /\ Len(retorno[i]) = config.numeros_por_carton
              /\ \A j \in 1..Len(retorno[i]) : retorno[i][j] \in 1..config.numero_maximo
              /\ \A j \in 1..(Len(retorno[i]) - 1) : retorno[i][j] < retorno[i][j + 1]

(* C2: a card is a winner exactly when all of its own numbers have been     *)
(* called, whatever its size: the threshold is the card's own number count. *)
(* The live engine compares with the fixed 10 instead.                      *)
C2_GanaAlCompletarPropio ==
    \A i \in 1..NumCartones :
        es_ganador(cartones[i]) <=>
            (cantidad_aciertos(cartones[i]) = Cardinality(cartones[i].numeros))

(* C3: when one call completes several cards at once, all of them are       *)
(* recorded as winners of that call.                                        *)
C3_GanadoresSimultaneos ==
    \A n \in Entradas :
        LET r == cantar_bolilla(Estado, n)
            completados == { i \in 1..NumCartones :
                                /\ ~Completo(cartones[i])
                                /\ Completo(r.estado.cartones[i]) }
        IN  (r.res.exito /\ Cardinality(completados) >= 2)
                => completados \subseteq Rango(r.estado.ganadores)

(* C4 as stated: IN_PROGRESS, call(n) for ANY number n not previously       *)
(* called succeeds, appends n, removes it from the pool, marks exactly the  *)
(* cards holding n, and finishes the game iff there is a winner.            *)
C4_CantarCualquierNueva ==
    ~jugada_terminada =>
        \A n \in Entradas \ Rango(bolillas_cantadas) :
            EfectoCantar(Estado, n, cantar_bolilla(Estado, n))

(* C4 amended: the same for every number n of 1..60 not previously called.  *)
C4_CantarNueva ==
    ~jugada_terminada =>
        \A n \in (Entradas \cap Universo) \ Rango(bolillas_cantadas) :
            EfectoCantar(Estado, n, cantar_bolilla(Estado, n))

\* a call has just succeeded, marked a card and ended the game
C4_Testigo ==
    /\ bolillas_cantadas # <<>>
    /\ resultado = Res("cantar", TRUE, "", Ultimo(bolillas_cantadas))
    /\ jugada_terminada
    /\ \E i \in 1..NumCartones : Ultimo(bolillas_cantadas) \in cartones[i].aciertos
    /\ \E i \in 1..NumCartones : Ultimo(bolillas_cantadas) \notin cartones[i].numeros

(* C5: FINISHED, call(n) for any n is rejected as AlreadyFinished and       *)
(* changes nothing.                                                         *)
C5_TerminadaRechaza ==
    jugada_terminada =>
        \A n \in Entradas :
            cantar_bolilla(Estado, n) = [estado |-> Estado, res |-> YaTermino]

\* a call has just been rejected because the game is over
C5_Testigo == jugada_terminada /\ resultado = YaTermino

(* C6: IN_PROGRESS, call(n) for n already in the history is rejected as     *)
(* AlreadyCalled and changes nothing.                                       *)
C6_RepetidaRechaza ==
    ~jugada_terminada =>
        \A n \in Rango(bolillas_cantadas) :
            cantar_bolilla(Estado, n) = [estado |-> Estado, res |-> YaCantada(n)]

\* a call of a number of the history has just been rejected
C6_Testigo ==
    /\ ~jugada_terminada
    /\ resultado.mensaje = "ya fue cantada"
    /\ resultado.numero \in Rango(bolillas_cantadas)

(* C7: undo on an empty history is rejected as NothingToUndo and changes    *)
(* nothing.                                                                 *)
C7_NadaQueDeshacer ==
    bolillas_cantadas = <<>> =>
        deshacer_bolilla(Estado) = [estado |-> Estado, res |-> NadaQueDeshacer]

\* an undo has just been rejected
C7_Testigo == bolillas_cantadas = <<>> /\ resultado = NadaQueDeshacer

(* C8: undo right after the winning call gives IN_PROGRESS with no winner,  *)
(* every card that had just won has one match less, and the undone number   *)
(* is back in the pool and out of the history.                              *)
C8_DeshacerTrasGanar ==
    jugada_terminada =>
        /\ bolillas_cantadas # <<>>
        /\ LET r == deshacer_bolilla(Estado)
               b == Ultimo(bolillas_cantadas)
           IN  /\ r.res.exito
               /\ ~r.estado.jugada_terminada
               /\ r.estado.ganadores = <<>>
               /\ \A j \in 1..Len(ganadores) :
                     cantidad_aciertos(r.estado.cartones[ganadores[j]]) =
                         cantidad_aciertos(cartones[ganadores[j]]) - 1
               /\ b \in r.estado.bolillas_disponibles
               /\ b \notin Rango(r.estado.bolillas_cantadas)

\* an undo has just taken back a ball whose call had ended the game
C8_Testigo ==
    /\ resultado.op = "deshacer" /\ resultado.exito
    /\ ~jugada_terminada /\ ganadores = <<>>
    /\ cantar_bolilla(Estado, resultado.numero).estado.jugada_terminada

(* C9 as stated: there is a reachable FINISHED game from which undo()       *)
(* returns a game that is still FINISHED.                                   *)
C9_DeshacerPuedeSeguirTerminada ==
    \E e \in Alcanzables(reiniciar(Estado)) :
        e.jugada_terminada /\ deshacer_bolilla(e).estado.jugada_terminada

(* C9 amended: undo only ever takes back the most recent call (in a         *)
(* FINISHED game, the winning call itself), and from every reachable        *)
(* FINISHED game it returns an IN_PROGRESS one.                             *)
C9_DeshacerQuitaLaUltima ==
    bolillas_cantadas # <<>> =>
        LET r == deshacer_bolilla(Estado)
        IN  /\ r.res = Res("deshacer", TRUE, "", Ultimo(bolillas_cantadas))
            /\ r.estado.bolillas_cantadas = SinUltimo(bolillas_cantadas)
            /\ jugada_terminada => ~r.estado.jugada_terminada

\* an undo has just taken back, after at least two calls, a ball that had
\* completed several cards at once
C9_Testigo ==
    /\ resultado.op = "deshacer" /\ resultado.exito
    /\ Len(bolillas_cantadas) >= 2
    /\ Len(cantar_bolilla(Estado, resultado.numero).estado.ganadores) >= 2

(* C10: after reset(), from any reachable game, the game equals a freshly   *)
(* loaded game over the same cards.                                         *)
C10_ReiniciarEsJuegoNuevo ==
    \E archivo \in Archivos :
        /\ MismosCartones(_cargar_cartones(archivo), cartones)
        /\ reiniciar(Estado) = EstadoInicial(archivo)

\* a reset has just been done
C10_Testigo ==
    /\ resultado.op = "reiniciar"
    /\ Estado \in { EstadoInicial(archivo) : archivo \in Archivos }

\* the load position of the card a ranking entry names
PosicionDe(entrada) ==
    CHOOSE p \in 1..NumCartones :
        /\ cartones[p].bingo_id = entrada.bingo_id
        /\ cartones[p].carton_tipo = entrada.carton_tipo

Aciertos(p) == Cardinality(cartones[p].aciertos)

(* C11: obtener_ranking(top_n), top_n >= 0, returns min(top_n, number of    *)
(* cards) distinct cards with their hit counts, in non-increasing order of  *)
(* hits; no card left out has more hits than a listed one; cards with equal *)
(* hits are listed in load order.                                           *)
C11_RankingOrdenado ==
    \A top_n \in (0..(NumCartones + 1)) \cup {TopPorDefecto} :
        LET r == obtener_ranking(Estado, top_n)
            listados == { PosicionDe(r[i]) : i \in 1..Len(r) }
        IN  /\ Len(r) = (IF top_n < NumCartones THEN top_n ELSE NumCartones)
            /\ Cardinality(listados) = Len(r)
            /\ \A i \in 1..Len(r) :
                  /\ r[i].carton = id_completo(cartones[PosicionDe(r[i])])
                  /\ r[i].aciertos = Aciertos(PosicionDe(r[i]))
            /\ \A i, j \in 1..Len(r) : i < j =>
                  /\ r[i].aciertos >= r[j].aciertos
                  /\ r[i].aciertos = r[j].aciertos
                        => PosicionDe(r[i]) < PosicionDe(r[j])
            /\ \A p \in (1..NumCartones) \ listados : \A i \in 1..Len(r) :
                  Aciertos(p) <= r[i].aciertos

\* a ranking of one card was asked for while two cards tie at the top with hits
\* and another card has fewer
C11_Testigo ==
    /\ resultado.op = "ranking" /\ resultado.numero = 1
    /\ Len(resultado.ranking) = 1
    /\ resultado.ranking[1].aciertos > 0
    /\ \E p, q \in 1..NumCartones :
          /\ p < q
          /\ Aciertos(p) = resultado.ranking[1].aciertos
          /\ Aciertos(q) = resultado.ranking[1].aciertos
    /\ \E p \in 1..NumCartones : Aciertos(p) < resultado.ranking[1].aciertos

(* C12: obtener_ranking(top_n) changes no part of the game, and a second    *)
(* obtener_ranking(top_n) right after it returns the same list.             *)
C12_RankingSoloLee ==
    [][resultado'.op = "ranking" =>
          /\ UNCHANGED <<cartones, bolillas_cantadas, bolillas_disponibles,
                         ganadores, jugada_terminada>>
          /\ (resultado.op = "ranking" /\ resultado.numero = resultado'.numero)
                => resultado'.ranking = resultado.ranking]_vars

\* a ranking was returned in a game with balls called and hits marked
C12_Testigo ==
    /\ resultado.op = "ranking" /\ resultado.numero = TopPorDefecto
    /\ Len(resultado.ranking) = NumCartones
    /\ bolillas_cantadas # <<>>
    /\ resultado.ranking[1].aciertos > resultado.ranking[NumCartones].aciertos


\* the number of ways to choose k of the numbers 1..m
Elecciones(m, k) == Cardinality({ S \in SUBSET (1..m) : Cardinality(S) = k })

Aceptada == pc \in {"generar", "hecho"}

(* C13: a configuration that needs more combinations than there are ways to *)
(* choose numeros_por_carton of 1..numero_maximo is never accepted, and the *)
(* error list names it whenever the validator returns; every accepted       *)
(* configuration has numeros_por_carton <= numero_maximo, numero_de_bingos  *)
(* a multiple of bingos_por_fila and needs no more than that count; the     *)
(* validator's binomial is that count.                                      *)
C13_ValidadorCapacidad ==
    pc # "validar" =>
        LET k == config.numeros_por_carton
            m == config.numero_maximo
        IN  /\ (k >= 0 /\ m >= 0) => comb(m, k) = Elecciones(m, k)
            /\ (k >= 0 /\ m >= 0 /\ combinaciones_necesarias(config) > Elecciones(m, k))
                  => /\ ~Aceptada
                     /\ validacion.excepcion = ""
                           => /\ ~validacion.ok
                              /\ "Imposible generar" \in Rango(validacion.errores)
            /\ Aceptada =>
                  /\ validacion.ok /\ validacion.errores = <<>>
                  /\ k <= m
                  /\ PyMod(config.numero_de_bingos, config.bingos_por_fila) = 0
                  /\ combinaciones_necesarias(config) <= Elecciones(m, k)

\* a configuration was rejected for capacity alone, one combination short
C13_Testigo ==
    /\ pc = "rechazada"
    /\ validacion.errores = <<"Imposible generar">>
    /\ config.numeros_por_carton >= 2
    /\ combinaciones_necesarias(config)
          = Elecciones(config.numero_maximo, config.numeros_por_carton) + 1


\* the constraints of a configuration that are violated
Violadas(c) ==
    { r \in {"numero_de_bingos", "numeros_por_carton", "numero_maximo",
             "cartones_por_bingo", "bingos_por_fila", "cabe", "divisible",
             "capacidad"} :
        \/ r = "numero_de_bingos" /\ c.numero_de_bingos <= 0
        \/ r = "numeros_por_carton" /\ c.numeros_por_carton <= 0
        \/ r = "numero_maximo" /\ c.numero_maximo <= 0
        \/ r = "cartones_por_bingo" /\ c.cartones_por_bingo <= 0
        \/ r = "bingos_por_fila" /\ c.bingos_por_fila <= 0
        \/ r = "cabe" /\ c.numeros_por_carton > c.numero_maximo
        \/ r = "divisible" /\ c.bingos_por_fila # 0
              /\ PyMod(c.numero_de_bingos, c.bingos_por_fila) # 0
        \/ r = "capacidad" /\ c.numeros_por_carton >= 0 /\ c.numero_maximo >= 0
              /\ combinaciones_necesarias(c)
                    > Elecciones(c.numero_maximo, c.numeros_por_carton) }

(* C14: for every configuration, also with a size parameter <= 0            *)
(* (numero_de_bingos, numeros_por_carton, numero_maximo, cartones_por_bingo,*)
(* bingos_por_fila), the validator returns instead of raising, fails        *)
(* exactly when a constraint is violated, lists one error per violated      *)
(* constraint, and nothing is generated.  The code checks only three of the *)
(* five sizes, and raises on a zero bingos_por_fila or a negative           *)
(* numeros_por_carton or numero_maximo.                                     *)
C14_ValidadorListaTodo ==
    pc # "validar" =>
        /\ validacion.excepcion = ""
        /\ validacion.ok <=> Violadas(config) = {}
        /\ Len(validacion.errores) = Cardinality(Violadas(config))
        /\ ~validacion.ok => (cartones_unicos = {} /\ retorno = <<>>)


\* the export has run (to its end or to an exception)
Exportado == pc \notin {"hecho", "validar", "generar", "inactivo", "rechazada"}

\* the cell of the right sheet id in a row of the paired layout
PosId2(c) == 1 + c.cartones_por_bingo * c.numeros_por_carton + 1

\* the sheet ids row r (1-based) of the paired layout carries
IdsDeFila(r) == << df_corel.filas[r][1], df_corel.filas[r][PosId2(config)] >>

(* C15: for every accepted configuration with bingos_por_fila = 2 the paired *)
(* layout has numero_de_bingos / 2 rows; row r (0-based) carries the left    *)
(* id r + 1 and the right id numero_de_bingos / 2 + 1 + r as 4-digit         *)
(* zero-padded strings, so that the ids are 1..numero_de_bingos, each once.  *)
(* With cartones_por_bingo other than 3 no layout is built at all.           *)
C15_IdsDeLaDisposicion ==
    (Exportado /\ config.bingos_por_fila = 2) =>
        LET mitad == config.numero_de_bingos \div 2
        IN  /\ df_corel.excepcion = ""
            /\ Len(df_corel.filas) = mitad
            /\ \A r \in 0..(mitad - 1) :
                  /\ IdsDeFila(r + 1)[1] = zfill(str(r + 1), 4)
                  /\ IdsDeFila(r + 1)[2] = zfill(str(mitad + 1 + r), 4)
                  /\ Len(IdsDeFila(r + 1)[1]) = 4 /\ Len(IdsDeFila(r + 1)[2]) = 4
            /\ { int(IdsDeFila(r)[s]) : r \in 1..mitad, s \in 1..2 }
                  = 1..config.numero_de_bingos

\* the cells of slot j (0..5 for A..F) in row r (1-based) of the paired layout
CeldasDe(r, j) ==
    LET k == config.numeros_por_carton
        ini == IF j < 3 THEN 1 + j * k ELSE 2 + j * k
    IN  SubSeq(df_corel.filas[r], ini + 1, ini + k)

(* C16: for every accepted configuration with bingos_por_fila = 2 and        *)
(* cartones_por_bingo = 3, row r (0-based) holds the pool cards r*3, r*3+1,  *)
(* r*3+2 in A, B, C and (rows+r)*3, (rows+r)*3+1, (rows+r)*3+2 in D, E, F;   *)
(* the left sheets take the first half of the pool, the right sheets the     *)
(* second, and every pool index is placed in exactly one slot.               *)
C16_MitadesContiguas ==
    (Exportado /\ config.bingos_por_fila = 2 /\ config.cartones_por_bingo = 3) =>
        LET rows == config.numero_de_bingos \div 2
        IN  /\ df_corel.excepcion = ""
            /\ Len(df_corel.filas) = rows
            /\ \A r \in 0..(rows - 1) : \A s \in 0..2 :
                  /\ CeldasDe(r + 1, s) = retorno[(r * 3 + s) + 1]
                  /\ CeldasDe(r + 1, 3 + s) = retorno[((rows + r) * 3 + s) + 1]
                  /\ r * 3 + s < rows * 3
                  /\ (rows + r) * 3 + s >= rows * 3
            /\ \A i \in 0..(config.numero_de_bingos * 3 - 1) :
                  Cardinality({ rj \in (1..rows) \X (0..5) :
                                  CeldasDe(rj[1], rj[2]) = retorno[i + 1] }) = 1

\* three rows were laid out from a pool that is not in its canonical order
C16_Testigo ==
    /\ pc = "exportado"
    /\ config.bingos_por_fila = 2 /\ config.cartones_por_bingo = 3
    /\ Len(df_corel.filas) = 3
    /\ retorno # Pool(config)
    /\ CeldasDe(2, 4) = retorno[14]


Letra(j) ==
    CASE j = 0 -> "A" [] j = 1 -> "B" [] j = 2 -> "C"
      [] j = 3 -> "D" [] j = 4 -> "E" [] j = 5 -> "F"

\* the checks of an audit that did not pass
Fallidas(a) == { i \in 1..Len(a.verificaciones) : ~a.verificaciones[i].ok }

\* the loaded cards all of whose numbers are among the first p balls of o
CompletosEn(o, p) ==
    { i \in 1..Len(cargados.cartones) :
        cargados.cartones[i].numeros \subseteq { o[j] : j \in 1..p } }

\* the identities of the cards of a set of positions, in load order
RECURSIVE Identidades(_, _)
Identidades(posiciones, i) ==
    IF i > Len(cargados.cartones) THEN <<>>
    ELSE (IF i \in posiciones
              THEN <<[bingo_id |-> cargados.cartones[i].bingo_id,
                      carton_tipo |-> cargados.cartones[i].carton_tipo]>>
          ELSE <<>>) \o Identidades(posiciones, i + 1)

(* C17: in every trial bolillas_hasta_ganador is the 1-based position of the *)
(* first ball that completes a card; the recorded order is that many first   *)
(* balls of the permutation, and the recorded winners are the cards that     *)
(* ball completed.  The simulator counts a card complete at 10 hits, so a    *)
(* card of fewer numbers is passed over.                                     *)
C17_PrimeraBolillaGanadora ==
    \A t \in 1..Len(resultados) :
        LET r == resultados[t]
            o == r.orden_bolillas
            n == r.bolillas_hasta_ganador
        IN  /\ Len(o) = n
            /\ \E orden \in Ordenes : o = SubSeq(orden, 1, n)
            /\ CompletosEn(o, n) # {}
            /\ \A p \in 1..(n - 1) : CompletosEn(o, p) = {}
            /\ r.ganadores = Identidades(CompletosEn(o, n), 1)
            /\ r.cantidad_ganadores = Cardinality(CompletosEn(o, n))


\* the sum of the values of a dict
RECURSIVE SumaDe(_)
SumaDe(f) ==
    IF DOMAIN f = {} THEN 0
    ELSE LET x == CHOOSE x \in DOMAIN f : TRUE
         IN  f[x] + SumaDe([y \in (DOMAIN f) \ {x} |-> f[y]])

\* the winners recorded over the trials rs
RECURSIVE TotalGanadores(_)
TotalGanadores(rs) ==
    IF rs = <<>> THEN 0 ELSE Len(Head(rs).ganadores) + TotalGanadores(Tail(rs))

(* C18: for a non-empty list of trials, bolillas_min and bolillas_max are    *)
(* the least and the greatest bolillas_hasta_ganador, ganadores_max is the   *)
(* greatest number of simultaneous winners, distribucion_ganadores maps each *)
(* number of winners to the number of trials having it and sums to the       *)
(* number of trials, and frecuencia_bingos and frecuencia_cartones each sum  *)
(* to the number of winners of all trials.                                   *)
C18_EstadisticasFieles ==
    (pc = "terminada" /\ resultados # <<>>) =>
        LET e == estadisticas
            T == 1..Len(resultados)
            b(t) == resultados[t].bolillas_hasta_ganador
            g(t) == resultados[t].cantidad_ganadores
        IN  /\ e.excepcion = ""
            /\ (\E t \in T : e.bolillas_min = b(t)) /\ (\A t \in T : e.bolillas_min <= b(t))
            /\ (\E t \in T : e.bolillas_max = b(t)) /\ (\A t \in T : e.bolillas_max >= b(t))
            /\ (\E t \in T : e.ganadores_max = g(t)) /\ (\A t \in T : e.ganadores_max >= g(t))
            /\ DOMAIN e.distribucion_ganadores = { g(t) : t \in T }
            /\ \A n \in DOMAIN e.distribucion_ganadores :
                  e.distribucion_ganadores[n] = Cardinality({ t \in T : g(t) = n })
            /\ SumaDe(e.distribucion_ganadores) = Len(resultados)
            /\ SumaDe(e.frecuencia_bingos) = TotalGanadores(resultados)
            /\ SumaDe(e.frecuencia_cartones) = TotalGanadores(resultados)
            /\ \A t \in T : g(t) = Len(resultados[t].ganadores)

\* statistics of two trials that differ in balls and in winners
C18_Testigo ==
    /\ pc = "terminada"
    /\ Len(resultados) = 2
    /\ estadisticas.bolillas_min < estadisticas.bolillas_max
    /\ estadisticas.ganadores_max >= 2
    /\ Cardinality(DOMAIN estadisticas.distribucion_ganadores) = 2
    /\ Cardinality(DOMAIN estadisticas.frecuencia_bingos) = 2


(* C19: the audit returns exactly six named checks (row count of the simple  *)
(* frame = needed, its column count = numeros_por_carton, no duplicate rows, *)
(* all values in 1..numero_maximo, no repeated value inside a row, row count *)
(* of the paired frame = numero_de_bingos // bingos_por_fila) and a flag     *)
(* that is true exactly when all six passed; failed checks are in the list.  *)
C19_SeisVerificaciones ==
    pc = "auditado" =>
        LET v == auditoria.verificaciones
            filas == df_simple.filas
        IN  /\ Len(v) = 6
            /\ [i \in 1..6 |-> v[i].nombre]
                  = << "Cantidad de combinaciones", "Numeros por carton",
                       "Combinaciones unicas", "Rango de numeros",
                       "Sin repetidos internos", "Filas Corel" >>
            /\ v[1].ok <=> Len(filas) = config.numero_de_bingos * config.cartones_por_bingo
            /\ v[2].ok <=> Len(filas[1]) = config.numeros_por_carton
            /\ v[3].ok <=> \A i, j \in 1..Len(filas) : i # j => filas[i] # filas[j]
            /\ v[4].ok <=> \A i \in 1..Len(filas) : Rango(filas[i]) \subseteq 1..config.numero_maximo
            /\ v[5].ok <=> \A i \in 1..Len(filas) :
                              \A j, l \in 1..Len(filas[i]) : j # l => filas[i][j] # filas[i][l]
            /\ v[6].ok <=> Len(df_corel.filas)
                              = PyDiv(config.numero_de_bingos, config.bingos_por_fila)
            /\ auditoria.todas_ok <=> (\A i \in 1..6 : v[i].ok)

\* an audit ended with failed and passed checks side by side
C19_Testigo ==
    /\ pc = "auditado"
    /\ ~auditoria.todas_ok
    /\ Cardinality(Fallidas(auditoria)) >= 2
    /\ 6 \in Fallidas(auditoria)
    /\ auditoria.verificaciones[1].ok


(* C20: for any numeros_por_carton, loading the saved paired layout gives,  *)
(* for every row, six cards whose sheet id, slot and number set are the     *)
(* encoded ones (A..C the left sheet's cards, D..F the right sheet's).  The *)
(* loaders read the fixed columns of numeros_por_carton = 10.               *)
C20_IdaYVuelta ==
    pc \in {"cargado en vivo", "cargado en simulador"} =>
        /\ cargados.excepcion = ""
        /\ Len(cargados.cartones) = 6 * Len(df_corel.filas)
        /\ \A r \in 1..Len(df_corel.filas) : \A j \in 0..5 :
              LET c == cargados.cartones[6 * (r - 1) + j + 1]
              IN  /\ c.bingo_id = IdsDeFila(r)[IF j < 3 THEN 1 ELSE 2]
                  /\ c.carton_tipo = Letra(j)
                  /\ c.numeros = Rango(CeldasDe(r, j))


(* C23: after any sequence of calls, undos and resets the call history has  *)
(* no repeated number, and bolillas_disponibles is exactly 1..60 minus the  *)
(* numbers of the history.                                                  *)
C23_HistoriaYDisponibles ==
    /\ \A i, j \in 1..Len(bolillas_cantadas) :
          i # j => bolillas_cantadas[i] # bolillas_cantadas[j]
    /\ bolillas_disponibles = Universo \ Rango(bolillas_cantadas)
    /\ Rango(bolillas_cantadas) \cup bolillas_disponibles = Universo
    /\ Rango(bolillas_cantadas) \cap bolillas_disponibles = {}

\* an undo has just put a ball back while other balls stay called
C23_Testigo ==
    /\ resultado.op = "deshacer" /\ resultado.exito
    /\ Len(bolillas_cantadas) >= 2
    /\ resultado.numero \in bolillas_disponibles
    /\ Cardinality(bolillas_disponibles) = MaxBolilla - Len(bolillas_cantadas)

(* C24: after any sequence of calls, undos and resets the winner list holds *)
(* exactly the cards whose hits are all of their numbers, each once, and    *)
(* the game is finished exactly when the list is not empty.  The live       *)
(* engine lists the cards with 10 hits instead.                             *)
C24_GanadoresSonLosCompletos ==
    /\ Rango(ganadores) = { i \in 1..NumCartones : Completo(cartones[i]) }
    /\ Cardinality(Rango(ganadores)) = Len(ganadores)
    /\ jugada_terminada <=> (ganadores # <<>>)

(* C25: after any sequence of calls, undos and resets every card's hits are *)
(* its numbers that are in the call history; a rejected call or undo leaves *)
(* the game as it was.                                                      *)
C25_AciertosSonLosCantados ==
    /\ \A i \in 1..NumCartones :
          cartones[i].aciertos = cartones[i].numeros \cap Rango(bolillas_cantadas)
    /\ \A n \in Entradas :
          ~cantar_bolilla(Estado, n).res.exito
              => cantar_bolilla(Estado, n).estado = Estado
    /\ ~deshacer_bolilla(Estado).res.exito => deshacer_bolilla(Estado).estado = Estado

\* an undo has just taken a hit off a card that keeps other hits
C25_Testigo ==
    /\ resultado.op = "deshacer" /\ resultado.exito
    /\ \E i \in 1..NumCartones :
          /\ resultado.numero \in cartones[i].numeros
          /\ cartones[i].aciertos # {}
          /\ resultado.numero \notin cartones[i].aciertos

(* C26: in every reachable finished game the history is not empty, every    *)
(* winner holds the last called number, no card was complete before the     *)
(* last call, and undo gives a game in progress with no winners.  The live  *)
(* engine ends a game at the first card with 10 hits, so a shorter card can *)
(* be complete long before the last call.                                   *)
C26_GanaConLaUltima ==
    jugada_terminada =>
        /\ bolillas_cantadas # <<>>
        /\ ganadores # <<>>
        /\ \A j \in 1..Len(ganadores) :
              Ultimo(bolillas_cantadas) \in cartones[ganadores[j]].numeros
        /\ LET antes == deshacer_bolilla(Estado).estado
           IN  /\ \A i \in 1..NumCartones : ~Completo(antes.cartones[i])
               /\ ~antes.jugada_terminada
               /\ antes.ganadores = <<>>

\* the reads of pool index i (0-based) the encoder makes: (row, side, slot)
LecturasDe(c, i) ==
    { t \in (0..(filas_corel(c) - 1)) \X {"izq", "der"} \X (0..(c.cartones_por_bingo - 1)) :
        i = (IF t[2] = "izq" THEN base_izq(c, t[1]) ELSE base_der(c, t[1])) + t[3] }

(* C27: for every accepted configuration, whatever its bingos_por_fila and  *)
(* cartones_por_bingo, the encoder reads only pool indices in               *)
(* 0..numero_de_bingos * cartones_por_bingo - 1, places every pool card in  *)
(* exactly one slot, gives every sheet id at most once, and builds rows     *)
(* with as many cells as the header has columns.  The encoder does so only  *)
(* for bingos_por_fila = 2 and cartones_por_bingo = 3.                      *)
C27_CodificadorGeneral ==
    Exportado =>
        LET c == config
            rows == filas_corel(c)
            ids == [r \in 0..(rows - 1) |->
                       <<Formato04d(1 + r), Formato04d(inicio_carton_2(c) + r)>>]
        IN  /\ \A fila \in 0..(rows - 1) :
                  IndicesDeFila(c, fila) \subseteq 0..(combinaciones_necesarias(c) - 1)
            /\ \A i \in 0..(combinaciones_necesarias(c) - 1) :
                  Cardinality(LecturasDe(c, i)) = 1
            /\ Cardinality({ ids[r][s] : r \in 0..(rows - 1), s \in 1..2 }) = 2 * rows
            /\ df_corel.excepcion = ""
            /\ \A r \in 1..Len(df_corel.filas) :
                  Len(df_corel.filas[r]) = Len(df_corel.columnas)

(* C30: the batch loader and the live loader make the same cards of the     *)
(* same paired file, with the same identities: in both, a card's sheet id   *)
(* is the 4-digit zero-padded sequence number, and sheet id and slot        *)
(* identify one card.  The batch loader keeps str(cell), which is the       *)
(* number without padding.                                                  *)
C30_CargadoresCoinciden ==
    pc \in {"cargado en vivo", "cargado en simulador"} =>
        LET vivo == CargarEnVivoDe(archivo_corel)
            sim == CargarSimuladorDe(archivo_corel)
            Id(c) == <<c.bingo_id, c.carton_tipo>>
        IN  (vivo.excepcion = "" /\ sim.excepcion = "") =>
                /\ Len(vivo.cartones) = Len(sim.cartones)
                /\ \A i \in 1..Len(sim.cartones) :
                      /\ Id(sim.cartones[i]) = Id(vivo.cartones[i])
                      /\ sim.cartones[i].numeros = vivo.cartones[i].numeros
                      /\ Len(sim.cartones[i].bingo_id) = AnchoId
                      /\ Len(vivo.cartones[i].bingo_id) = AnchoId
                /\ \A i, j \in 1..Len(sim.cartones) :
                      i # j => /\ Id(sim.cartones[i]) # Id(sim.cartones[j])
                               /\ Id(vivo.cartones[i]) # Id(vivo.cartones[j])

\* the number of numbers of the smallest loaded card
MenorCarton ==
    CHOOSE n \in 0..BolillasTotales :
        /\ \E i \in 1..Len(cargados.cartones) :
              Cardinality(cargados.cartones[i].numeros) = n
        /\ \A i \in 1..Len(cargados.cartones) :
              Cardinality(cargados.cartones[i].numeros) >= n

(* C28: for every non-empty set of cards with numbers in 1..60, every trial *)
(* ends with at least one recorded winner, after no fewer balls than the    *)
(* smallest card has numbers and no more than 60; no trial runs out of      *)
(* balls without a winner.  The simulator passes over cards of fewer than   *)
(* 10 numbers, so a file of such cards alone has trials without a winner.   *)
C28_SiempreHayGanador ==
    (/\ pc \in {"simular", "terminada"}
     /\ cargados.cartones # <<>>
     /\ \A i \in 1..Len(cargados.cartones) :
           cargados.cartones[i].numeros \subseteq 1..BolillasTotales) =>
        \A t \in 1..Len(resultados) :
            /\ resultados[t].cantidad_ganadores >= 1
            /\ resultados[t].ganadores # <<>>
            /\ MenorCarton <= resultados[t].bolillas_hasta_ganador
            /\ resultados[t].bolillas_hasta_ganador <= BolillasTotales

\* max(needed, 0): the size the accepted set has to reach
Meta == IF combinaciones_necesarias(config) > 0
            THEN combinaciones_necesarias(config) ELSE 0

(* C29: for every accepted configuration, saturated ones included, the      *)
(* sampling loop ends, provided every combination keeps being drawn; while  *)
(* it runs the accepted set never loses a combination, gains at most one a  *)
(* turn, never exceeds the needed size, and nothing is drawn once the size  *)
(* is the needed one.                                                       *)
C29_MuestreoTermina ==
    /\ [][pc = "generar" =>
            /\ cartones_unicos \subseteq cartones_unicos'
            /\ Cardinality(cartones_unicos') <= Cardinality(cartones_unicos) + 1
            /\ Cardinality(cartones_unicos') <= Meta
            /\ Cardinality(cartones_unicos) = Meta
                  => (cartones_unicos' = cartones_unicos /\ pc' = "hecho")
            /\ pc' = "hecho" => Len(retorno') = Meta]_vars
    /\ (pc = "generar") ~> (pc = "hecho")

\* a saturated configuration has been generated: every combination there is
C29_Testigo ==
    /\ pc = "hecho"
    /\ config.numeros_por_carton >= 2
    /\ Len(retorno) = comb(config.numero_maximo, config.numeros_por_carton)
    /\ Len(retorno) = combinaciones_necesarias(config)

(* C21: the progress callback is called once for every multiple of 500 the  *)
(* accepted set reaches, with that size, and never twice for the same size. *)
(* The loop tests the size after every draw, so a repeated draw made while  *)
(* the size is a multiple of 500 calls it again.                            *)
C21_UnAvisoPorMultiplo ==
    LET n == Cardinality(cartones_unicos)
    IN  /\ { progreso[i][1] : i \in 1..Len(progreso) }
              = { x \in 1..n : x % PeriodoProgreso = 0 }
        /\ \A i, j \in 1..Len(progreso) : i # j => progreso[i][1] # progreso[j][1]
        /\ Len(progreso) = n \div PeriodoProgreso

\* the positions of the history holding n
VecesCantada(n) == { i \in 1..Len(bolillas_cantadas) : bolillas_cantadas[i] = n }

\* nobody is inside a call
TodosFuera == \A h \in Hilos : hilos.de[h].pc = "fuera"

(* C22: EstadoJugada has no lock.  When the host runs the calls on a game   *)
(* one at a time, no number is ever twice in the history, every call that   *)
(* finds its number in the history or the game finished is rejected, and    *)
(* between calls bolillas_disponibles is 1..60 minus the history; a number  *)
(* is twice in the history only when calls interleave, and then once per    *)
(* caller at most.                                                          *)
C22_EnSerieSinRepetidas ==
    /\ \A n \in Universo :
          /\ Cardinality(VecesCantada(n)) <= Cardinality(Hilos)
          /\ hilos.en_serie => Cardinality(VecesCantada(n)) <= 1
    /\ (hilos.en_serie /\ TodosFuera) =>
          /\ bolillas_disponibles = Universo \ Rango(bolillas_cantadas)
          /\ jugada_terminada <=> (ganadores # <<>>)
          /\ \A h \in Hilos :
                (hilos.de[h].res.op = "cantar" /\ ~hilos.de[h].res.exito)
                    => \/ jugada_terminada
                       \/ hilos.de[h].res.numero \in Rango(bolillas_cantadas)

\* without serialization both callers called the same number, both calls
\* passed the guards and returned success, and the number is twice in the
\* history
C22_Testigo ==
    /\ ~hilos.en_serie
    /\ TodosFuera
    /\ \E n \in BolillasConc :
          /\ Cardinality(VecesCantada(n)) = 2
          /\ \A h \in Hilos : hilos.de[h].res = Res("cantar", TRUE, "", n)

====
